---- MODULE Spec2Model ----
(***************************************************************************)
(* RedTeam agent: finding reconciliation (normalize, deduplicate,          *)
(* processIssues) against an issue tracker, and the evidence gate of the   *)
(* LLM planner (runStaticChecks, hypothesisToFinding).                     *)
(*                                                                         *)
(* The tracker is the durable state.  One run of main() is a sequence of   *)
(* steps, one step per request the run awaits (single-threaded, so the     *)
(* code between two awaits is atomic).  A request to the tracker either    *)
(* succeeds or fails (transport error, timeout, non-2xx); a failed         *)
(* mutation leaves the tracker unchanged.                                  *)
(***************************************************************************)
EXTENDS Naturals, Integers, Sequences, FiniteSets, TLC

VARIABLES
    repo,       \* the raw findings the scanners report on the repository
    issues,     \* tracker: sequence of issues, issue number = index
    labels,     \* tracker: names of the labels that exist
    config,     \* RedTeamConfig of the current run
    pc,         \* position of main() / processIssues()
    run,        \* number of runs started
    findings,   \* main: findings = normalize(allRaw)
    dedup,      \* main: dedup = await deduplicate(findings, config)
    sortedNew,  \* processIssues: sortedNew
    idx,        \* processIssues: position of the for loop over sortedNew
    created,    \* processIssues: created
    results,    \* processIssues: results
    closeIdx,   \* processIssues: position of the for loop over resolvedIssueNumbers
    log,        \* requests this run has sent to the tracker, in order
    prev,       \* summary of the previous run
    allRaw,     \* main: allRaw
    files,      \* the files under repoRoot: path -> content
    hypotheses, \* main: the hypotheses the loop has not reached yet
    checkResult,\* main: checkResult of the hypothesis at the head
    checked,    \* the hypotheses the loop is done with, each with its check
                \* result and the finding made of it
    provider,   \* the LLM provider: whether complete() throws, and its content
    plannerConfig, \* LLMPlannerConfig: targetAllowlist, maxHypotheses
    llmOutput,  \* generateHypotheses: result.content, then sanitized
    parsed,     \* generateHypotheses: parsed
    safe,       \* generateHypotheses: what filterSafeHypotheses returned
    env,        \* what each scanner meets when it scans
    scanIdx     \* main: position of the for loop over the scanners

vars == <<repo, issues, labels, config, pc, run, findings, dedup, sortedNew, idx,
          created, results, closeIdx, log, prev, allRaw, files, hypotheses,
          checkResult, checked, provider, plannerConfig, llmOutput, parsed, safe,
          env, scanIdx>>

generateVars == <<provider, plannerConfig, llmOutput, parsed, safe>>

scanVars == <<env, scanIdx>>

\* The state of the stages of main that come before normalization.
plannerVars == <<files, hypotheses, checkResult, checked, generateVars, scanVars>>

trackerVars == <<issues, labels>>

processVars == <<sortedNew, idx, created, results, closeIdx>>

----------------------------------------------------------------------------
(* Bounds *)

MaxFindings == 2    \* raw findings reported in one scan
MaxRuns == 2        \* runs of main() in one behaviour
MaxCap == 2         \* largest issues.maxPerRun tried
MaxChecked == 2     \* hypotheses the planner hands to the evidence checker
MaxItems == 2       \* items in the hypotheses array of one model answer
MaxHypotheses == 2  \* largest llmPlanner.maxHypotheses tried

----------------------------------------------------------------------------
(* Data *)

Severities == {"critical", "high", "medium", "low"}

SEVERITY_ORDER == [critical |-> 0, high |-> 1, medium |-> 2, low |-> 3]

DEMO_ISSUE_LABEL == "demo:redteam-example"

NoLabel == "undefined"

REQUIRED_LABELS == <<"security", "redteam-agent", "severity:critical",
                     "severity:high", "severity:medium", "severity:low">>

\* Raw findings the scanners can report.  The two aws-access-key findings are
\* two keys in the same file: the secret scanner gives them the same title and
\* path and different lines.  A string of characters that is cut somewhere
\* (evidence) is the sequence of its pieces, each piece s with its number n
\* of characters; a piece with a smaller n is the first n characters of s.
RawCatalog == {
    [rawId |-> "secret-aws-access-key-config.js-3-14",
     title |-> "Potential secret detected: aws-access-key",
     severity |-> "critical", tool |-> "secret-detection", category |-> "secret",
     path |-> "config.js", startLine |-> 3,
     evidence |-> <<[s |-> "AKIA************MPLE", n |-> 20]>>,
     remediation |-> <<"Remove the secret from source code and rotate the credential. Use environment variables or a secrets manager instead.">>],
    [rawId |-> "secret-aws-access-key-config.js-9-10",
     title |-> "Potential secret detected: aws-access-key",
     severity |-> "critical", tool |-> "secret-detection", category |-> "secret",
     path |-> "config.js", startLine |-> 9,
     evidence |-> <<[s |-> "AKIA************7QXZ", n |-> 20]>>,
     remediation |-> <<"Remove the secret from source code and rotate the credential. Use environment variables or a secrets manager instead.">>],
    [rawId |-> "npm-lodash-1094499",
     title |-> "Prototype Pollution in lodash",
     severity |-> "high", tool |-> "npm-audit", category |-> "dependency",
     path |-> "package.json (lodash)", startLine |-> 0,
     evidence |-> <<[s |-> "Package: lodash, Severity: high", n |-> 31]>>,
     remediation |-> <<"Update to lodash@4.17.21">>],
    [rawId |-> "http-header-x-frame-options-/",
     title |-> "Missing security header: x-frame-options",
     severity |-> "medium", tool |-> "http-scan", category |-> "http",
     path |-> "http://localhost:3000/", startLine |-> 0,
     evidence |-> <<[s |-> "Response to / is missing the x-frame-options header", n |-> 51]>>,
     remediation |-> <<"Add the x-frame-options header to your server responses.">>],
    [rawId |-> "npm-minimist-0",
     title |-> "Vulnerability in minimist",
     severity |-> "low", tool |-> "npm-audit", category |-> "dependency",
     path |-> "package.json (minimist)", startLine |-> 0,
     evidence |-> <<[s |-> "Package: minimist, Severity: low", n |-> 32]>>,
     remediation |-> <<"Run npm audit fix or update manually">>] }

Range(s) == { s[i] : i \in 1..Len(s) }

NoRepeat(s) == \A i, j \in 1..Len(s) : i # j => s[i] # s[j]

\* Sequences over S without repetition, of length at most n.
RECURSIVE InjSeqs(_, _)
InjSeqs(S, n) ==
    IF n = 0 THEN {<<>>}
    ELSE LET shorter == InjSeqs(S, n - 1)
         IN  shorter \cup
             UNION { { Append(s, x) : x \in S \ Range(s) } :
                     s \in {t \in shorter : Len(t) = n - 1} }

----------------------------------------------------------------------------
(* utils/fingerprint.ts *)

\* A version of toLowerCase().trim() that leaves the string as it is.
LowerTrimIdentity(s) == s

\* String.prototype.toLowerCase().trim() on the strings of the model.
LowerTrim(s) ==
    CASE s = "Potential secret detected: aws-access-key"
            -> "potential secret detected: aws-access-key"
      [] s = "Prototype Pollution in lodash" -> "prototype pollution in lodash"
      [] s = "Missing security header: x-frame-options"
            -> "missing security header: x-frame-options"
      [] s = "Vulnerability in minimist" -> "vulnerability in minimist"
      [] s = "Vulnerability in qs" -> "vulnerability in qs"
      [] s = "SQL injection in queryUser" -> "sql injection in queryuser"
      [] s = "SQL injection via the order route" -> "sql injection via the order route"
      [] s = "Wildcard CORS" -> "wildcard cors"
      [] s = "Order total tampering" -> "order total tampering"
      [] s = "Prototype abuse" -> "prototype abuse"
      [] s = "Eval of request input" -> "eval of request input"
      [] s = "  prototype pollution in LODASH " -> "prototype pollution in lodash"
      [] s = "Package.json (lodash) " -> "package.json (lodash)"
      [] s = "NPM-Audit" -> "npm-audit"
      [] s = " Dependency" -> "dependency"
      [] OTHER -> s

\* SHA-256 of the joined fields, as the digest's preimage: the hash is taken
\* to be collision-free, so equal digests are equal normalized tuples.
generateFingerprint(tool, category, path, title) ==
    <<"sha256", LowerTrim(tool), LowerTrim(category), LowerTrim(path),
      LowerTrim(title)>>

\* The first 12 hex characters of the digest: a prefix of it.
generateId(fingerprint) == <<"prefix12", fingerprint>>

(* normalizer.ts *)

\* String.prototype.slice(0, k) on a string given by its pieces.
RECURSIVE Slice(_, _)
Slice(pieces, k) ==
    IF pieces = <<>> \/ k = 0 THEN <<>>
    ELSE IF Head(pieces).n <= k
    THEN <<Head(pieces)>> \o Slice(Tail(pieces), k - Head(pieces).n)
    ELSE <<[Head(pieces) EXCEPT !.n = k]>>

\* A normalizer that keeps the evidence whole.
normalizeOneUntruncated(r) ==
    LET fingerprint == generateFingerprint(r.tool, r.category, r.path, r.title)
    IN  [rawId |-> r.rawId, title |-> r.title, severity |-> r.severity,
         tool |-> r.tool, category |-> r.category, path |-> r.path,
         startLine |-> r.startLine,
         id |-> generateId(fingerprint), fingerprint |-> fingerprint,
         evidence |-> r.evidence, remediation |-> r.remediation]

normalizeOne(r) ==
    LET fingerprint == generateFingerprint(r.tool, r.category, r.path, r.title)
    IN  [rawId |-> r.rawId, title |-> r.title, severity |-> r.severity,
         tool |-> r.tool, category |-> r.category, path |-> r.path,
         startLine |-> r.startLine,
         id |-> generateId(fingerprint), fingerprint |-> fingerprint,
         evidence |-> Slice(r.evidence, 1024), remediation |-> r.remediation]

normalize(raw) == [i \in 1..Len(raw) |-> normalizeOne(raw[i])]

----------------------------------------------------------------------------
(* github/issues.ts: issue body and fingerprint marker *)

NoMarker == <<"no-marker">>

\* persona.ts getPersona: an unknown name gives the default persona.
getPersona(name) == IF name \in {"default", "chuck_norris"} THEN name ELSE "default"

\* A body is the sequence of its parts in the order of the template.  A part
\* is [kind, text, cut]: text is the sequence of the strings of the part and
\* cut, where it is not empty, gives for each string the number of its
\* characters that are in the body.  The part of kind "marker" is
\* FINGERPRINT_PREFIX, the text and FINGERPRINT_SUFFIX.
Part(kind, text) == [kind |-> kind, text |-> text, cut |-> <<>>]

\* A body whose marker line comes last.
buildIssueBodyMarkerLast(finding, persona) ==
    << Part("text", <<"## ", finding.title>>),
       [kind |-> "evidence",
        text |-> [i \in 1..Len(finding.evidence) |-> finding.evidence[i].s],
        cut |-> [i \in 1..Len(finding.evidence) |-> finding.evidence[i].n]],
       Part("text", finding.remediation),
       Part("marker", finding.fingerprint) >>

\* buildIssueBody: the marker line, then the presentation of the finding in
\* the tone of the persona.  maskSecret keeps at most the first four and the
\* last four characters of the evidence of a secret.
buildIssueBody(finding, persona) ==
    LET chuck == persona = "chuck_norris"
        locationStr ==
            IF finding.startLine # 0
            THEN <<finding.path, ":", ToString(finding.startLine)>>
            ELSE <<finding.path>>
        evidence ==
            [kind |-> IF finding.category = "secret" THEN "masked" ELSE "evidence",
             text |-> [i \in 1..Len(finding.evidence) |-> finding.evidence[i].s],
             cut |-> [i \in 1..Len(finding.evidence) |-> finding.evidence[i].n]]
    IN  << Part("marker", finding.fingerprint),
           Part("persona", IF chuck
                           THEN <<"> ", "CHUCK_OPENINGS", finding.severity>>
                                    \o finding.fingerprint
                           ELSE <<>>),
           Part("text", <<"## ", finding.title>>),
           Part("text", <<finding.severity, finding.tool, finding.category>>
                            \o locationStr),
           Part("persona", IF chuck
                           THEN <<"### Proof (Because Doubt Is Not an Option)">>
                           ELSE <<"### Evidence">>),
           evidence,
           Part("persona", IF chuck
                           THEN <<"### How to Fix This So It Never Happens Again">>
                           ELSE <<"### Remediation">>),
           Part("text", finding.remediation),
           Part("text", <<"*Filed by RedTeam Agent", "Finding ID: ", "Fingerprint: ">>
                            \o finding.fingerprint),
           Part("persona", IF chuck
                           THEN <<"Fix this. Re-run the scan. Chuck Norris will be watching.">>
                           ELSE <<>>) >>

\* The strings of the model that hold a complete marker: the fingerprint in
\* it, here that of the advisory on qs as it stands in the issue that
\* reports it, and the character where the marker ends.
MarkerIn(s) ==
    LET qs == generateFingerprint("npm-audit", "dependency", "package.json (qs)",
                                  "Vulnerability in qs")
    IN  CASE s = "<the body of the issue on qs, quoted>" -> [fp |-> qs, end |-> 93]
          [] s = "See <the marker of the issue on qs>" -> [fp |-> qs, end |-> 97]
          [] OTHER -> [fp |-> NoMarker, end |-> 0]

\* The digests of SHA-256 are the texts [a-f0-9]{64} matches.
IsHex64(text) == text # <<>> /\ text[1] = "sha256"

\* The leftmost match of FINGERPRINT_REGEX within one part.
MatchInPart(part) ==
    IF part.kind = "marker"
    THEN IF IsHex64(part.text) THEN part.text ELSE NoMarker
    ELSE IF part.kind = "masked" THEN NoMarker
    ELSE LET hits == { i \in 1..Len(part.text) :
                         /\ MarkerIn(part.text[i]).fp # NoMarker
                         /\ part.cut # <<>> => part.cut[i] >= MarkerIn(part.text[i]).end }
         IN  IF hits = {} THEN NoMarker
             ELSE MarkerIn(part.text[CHOOSE i \in hits : \A j \in hits : i <= j]).fp

\* FINGERPRINT_REGEX.exec(body): the 64 hex characters of the leftmost
\* marker of the body, if any.
FingerprintMatch(body) ==
    LET hits == { k \in 1..Len(body) : MatchInPart(body[k]) # NoMarker }
    IN  IF hits = {} THEN NoMarker
        ELSE MatchInPart(body[CHOOSE k \in hits : \A j \in hits : k <= j])

SeverityLabel(severity) ==
    CASE severity = "critical" -> "severity:critical"
      [] severity = "high" -> "severity:high"
      [] severity = "medium" -> "severity:medium"
      [] severity = "low" -> "severity:low"

\* Mutant of IssueLabels: the control label is left out.
IssueLabelsNoControl(finding, cfg) ==
    {"security", SeverityLabel(finding.severity)}
        \cup (IF cfg.demoLabel # NoLabel THEN {cfg.demoLabel} ELSE {})

\* createIssueForFinding: the labels of the issue it creates.
IssueLabels(finding, cfg) ==
    {"security", "redteam-agent", SeverityLabel(finding.severity)}
        \cup (IF cfg.demoLabel # NoLabel THEN {cfg.demoLabel} ELSE {})

\* The issue octokit.issues.create adds to the tracker.
NewIssue(finding, cfg) ==
    [state |-> "open", labels |-> IssueLabels(finding, cfg),
     body |-> buildIssueBody(finding, getPersona(cfg.persona)), comments |-> 0, pull_request |-> FALSE]

----------------------------------------------------------------------------
(* github/issues.ts: fetchExistingIssuesByFingerprint *)

\* A JS Map as the sequence of its entries in insertion order.
MapHas(m, k) == \E i \in 1..Len(m) : m[i].key = k

MapGet(m, k) == m[CHOOSE i \in 1..Len(m) : m[i].key = k].value

MapSet(m, k, v) ==
    IF MapHas(m, k)
    THEN [i \in 1..Len(m) |-> IF m[i].key = k THEN [key |-> k, value |-> v] ELSE m[i]]
    ELSE Append(m, [key |-> k, value |-> v])

\* labelFilter of the listForRepo request.
LabelFilter(cfg) ==
    IF cfg.demoLabel # NoLabel THEN {"redteam-agent", cfg.demoLabel}
    ELSE {"redteam-agent"}

\* octokit.issues.listForRepo with state "open" and the label filter: the
\* numbers of the matching issues, newest first (the tracker's default order).
RECURSIVE ListForRepo(_, _, _)
ListForRepo(tracker, filter, n) ==
    IF n = 0 THEN <<>>
    ELSE IF tracker[n].state = "open" /\ filter \subseteq tracker[n].labels
         THEN <<n>> \o ListForRepo(tracker, filter, n - 1)
         ELSE ListForRepo(tracker, filter, n - 1)

RECURSIVE FetchLoop(_, _, _, _)
FetchLoop(tracker, listing, i, fingerprints) ==
    IF i > Len(listing) THEN fingerprints
    ELSE LET issue == tracker[listing[i]]
             match == FingerprintMatch(issue.body)
         IN  IF issue.pull_request THEN FetchLoop(tracker, listing, i + 1, fingerprints)
             ELSE IF match # NoMarker
                  THEN FetchLoop(tracker, listing, i + 1,
                                 MapSet(fingerprints, match, listing[i]))
                  ELSE FetchLoop(tracker, listing, i + 1, fingerprints)

fetchExistingIssuesByFingerprint(tracker, cfg) ==
    FetchLoop(tracker, ListForRepo(tracker, LabelFilter(cfg), Len(tracker)), 1, <<>>)

----------------------------------------------------------------------------
(* dedup.ts *)

\* Mutant of deduplicate: every entry of the tracker map is resolved.
deduplicateResolvesAll(fs, existingIssues) ==
    LET isNew(f) == ~MapHas(existingIssues, f.fingerprint)
        isExisting(f) == MapHas(existingIssues, f.fingerprint)
        existing == SelectSeq(fs, isExisting)
    IN  [newFindings |-> SelectSeq(fs, isNew),
         existingFindings |->
            [i \in 1..Len(existing) |->
                [finding |-> existing[i],
                 issueNumber |-> MapGet(existingIssues, existing[i].fingerprint)]],
         resolvedIssueNumbers |->
            [i \in 1..Len(existingIssues) |-> existingIssues[i].value],
         totalRaw |-> Len(fs)]

deduplicate(fs, existingIssues) ==
    LET currentFingerprints == { fs[i].fingerprint : i \in 1..Len(fs) }
        isExisting(f) == MapHas(existingIssues, f.fingerprint)
        isNew(f) == ~MapHas(existingIssues, f.fingerprint)
        existing == SelectSeq(fs, isExisting)
        isResolved(e) == e.key \notin currentFingerprints
        resolved == SelectSeq(existingIssues, isResolved)
    IN  [newFindings |-> SelectSeq(fs, isNew),
         existingFindings |->
            [i \in 1..Len(existing) |->
                [finding |-> existing[i],
                 issueNumber |-> MapGet(existingIssues, existing[i].fingerprint)]],
         resolvedIssueNumbers |-> [i \in 1..Len(resolved) |-> resolved[i].value],
         totalRaw |-> Len(fs)]

\* What fetchExistingIssuesByFingerprint and deduplicate hand to logger.info:
\* the size of the map, then the four counts of the result.
ReconciliationLog(tracker, cfg, fs) ==
    LET existingIssues == fetchExistingIssuesByFingerprint(tracker, cfg)
        result == deduplicate(fs, existingIssues)
    IN  << [message |-> "Fetched existing issues", data |-> <<Len(existingIssues)>>],
           [message |-> "Dedup complete",
            data |-> <<result.totalRaw, Len(result.newFindings),
                       Len(result.existingFindings),
                       Len(result.resolvedIssueNumbers)>>] >>

----------------------------------------------------------------------------
(* github/issues.ts: sortBySeverity *)

compareSeverity(a, b) == SEVERITY_ORDER[a.severity] - SEVERITY_ORDER[b.severity]

\* Mutant of InsertSorted: an unstable sort, equal elements change places.
RECURSIVE InsertSortedUnstable(_, _)
InsertSortedUnstable(sorted, x) ==
    IF sorted = <<>> THEN <<x>>
    ELSE IF SEVERITY_ORDER[sorted[Len(sorted)].severity] >= SEVERITY_ORDER[x.severity]
         THEN Append(InsertSortedUnstable(SubSeq(sorted, 1, Len(sorted) - 1), x),
                     sorted[Len(sorted)])
         ELSE Append(sorted, x)

\* Array.prototype.sort is stable: an element goes after every element that
\* does not compare greater than it.
RECURSIVE InsertSorted(_, _)
InsertSorted(sorted, x) ==
    IF sorted = <<>> THEN <<x>>
    ELSE IF compareSeverity(sorted[Len(sorted)], x) > 0
         THEN Append(InsertSorted(SubSeq(sorted, 1, Len(sorted) - 1), x),
                     sorted[Len(sorted)])
         ELSE Append(sorted, x)

RECURSIVE SortLoop(_, _, _)
SortLoop(fs, i, sorted) ==
    IF i > Len(fs) THEN sorted
    ELSE SortLoop(fs, i + 1, InsertSorted(sorted, fs[i]))

sortBySeverity(fs) == SortLoop(fs, 1, <<>>)

----------------------------------------------------------------------------
(* State of the pipeline *)

Tokens == {"", "ghp_token"}

Configs ==
    [enabled : BOOLEAN, token : Tokens, maxPerRun : 0..MaxCap,
     autoClose : BOOLEAN, demoLabel : {NoLabel, DEMO_ISSUE_LABEL},
     persona : {"default"}]

NoConfig ==
    [enabled |-> FALSE, token |-> "", maxPerRun |-> 0, autoClose |-> FALSE,
     demoLabel |-> NoLabel, persona |-> "default"]

NoDedup ==
    [newFindings |-> <<>>, existingFindings |-> <<>>,
     resolvedIssueNumbers |-> <<>>, totalRaw |-> 0]

NoPrev == [completed |-> FALSE, demoLabel |-> NoLabel, newCount |-> 0, created |-> 0]

\* A finding an earlier scan reported and the scanners no longer report.
StaleRaw ==
    [rawId |-> "npm-qs-0", title |-> "Vulnerability in qs", severity |-> "low",
     tool |-> "npm-audit", category |-> "dependency", path |-> "package.json (qs)",
     startLine |-> 0, evidence |-> <<[s |-> "Package: qs, Severity: low", n |-> 26]>>,
     remediation |-> <<"Run npm audit fix or update manually">>]

LodashRaw == CHOOSE r \in RawCatalog : r.rawId = "npm-lodash-1094499"

SeedIssue(raw) == NewIssue(normalizeOne(raw), NoConfig)

\* Trackers a first run can meet: no two open issues share a fingerprint.
InitialTrackers ==
    { <<>>,
      <<SeedIssue(StaleRaw)>>,
      <<SeedIssue(LodashRaw), SeedIssue(StaleRaw)>>,
      <<[SeedIssue(StaleRaw) EXCEPT !.pull_request = TRUE], SeedIssue(LodashRaw)>> }

NoCheck == [hypothesisId |-> "", evidenceFound |-> FALSE, details |-> <<>>,
            locations |-> <<>>]

\* The content of a provider's answer: a kind of text ("object": a JSON
\* object with a hypotheses array, "noHypotheses": a JSON object without one,
\* "notArray": hypotheses is not an array, "null": the JSON text null,
\* "prose": not JSON), the hypotheses of the array, the tokens of a prose
\* text, and whether the JSON syntax is intact.
LLMContent(kind, hs, text) ==
    [kind |-> kind, hypotheses |-> hs, text |-> text, wellFormed |-> kind # "prose"]

NoContent == LLMContent("none", <<>>, <<>>)

NoParsed == [kind |-> "none", hypotheses |-> <<>>]

NoProvider == [throws |-> FALSE, content |-> NoContent]

NoPlannerConfig == [enabled |-> FALSE, targetAllowlist |-> <<>>, maxHypotheses |-> 0]

ScannerNames == <<"npm-audit", "secret-detection", "http-scan">>

\* Every scanner runs to its end.
AllScannersOk == [n \in Range(ScannerNames) |-> "ok"]

GenerateIdle ==
    /\ provider = NoProvider
    /\ plannerConfig = NoPlannerConfig
    /\ llmOutput = NoContent
    /\ parsed = NoParsed
    /\ safe = <<>>

\* llmPlanner is not enabled: main skips step 2b.
PlannerIdle ==
    /\ files = <<>>
    /\ hypotheses = <<>>
    /\ checkResult = NoCheck
    /\ checked = <<>>
    /\ GenerateIdle
    /\ env = AllScannersOk
    /\ scanIdx = 1

\* The findings of the scans that are run more than once.
RerunCatalog == { r \in RawCatalog : r.tool \in {"secret-detection", "npm-audit"}
                                      /\ r.severity \in {"critical", "high"} }

RerunTrackers == { <<>>, <<SeedIssue(StaleRaw)>> }

InitWith(scans, trackers) ==
    /\ repo \in scans
    /\ issues \in trackers
    /\ labels = IF issues = <<>> THEN {} ELSE Range(REQUIRED_LABELS)
    /\ config = NoConfig
    /\ pc = "idle"
    /\ run = 0
    /\ allRaw = <<>>
    /\ findings = <<>>
    /\ dedup = NoDedup
    /\ sortedNew = <<>>
    /\ idx = 1
    /\ created = 0
    /\ results = <<>>
    /\ closeIdx = 1
    /\ log = <<>>
    /\ prev = NoPrev
    /\ PlannerIdle

Init == InitWith(InjSeqs(RawCatalog, MaxFindings), InitialTrackers)

InitRuns == InitWith(InjSeqs(RerunCatalog, MaxFindings), RerunTrackers)

Request(op, arg, ok) == [op |-> op, arg |-> arg, ok |-> ok]

----------------------------------------------------------------------------
(* index.ts: main *)

\* main, steps 1 to 4: load the config, run the scanners, normalize; with
\* issues disabled the run prints the findings and returns.
StartRun(limit) ==
    /\ pc = "idle"
    /\ run < limit
    /\ \E cfg \in Configs : config' = cfg
    /\ run' = run + 1
    /\ allRaw' = repo
    /\ findings' = normalize(allRaw')
    /\ pc' = IF config'.enabled THEN "dedup" ELSE "exit"
    /\ dedup' = NoDedup
    /\ sortedNew' = <<>>
    /\ idx' = 1
    /\ created' = 0
    /\ results' = <<>>
    /\ closeIdx' = 1
    /\ log' = <<>>
    /\ UNCHANGED <<repo, issues, labels, prev, plannerVars>>

\* Mutant of createOctokitThrows: the token is not checked.
createOctokitNoCheck(cfg) == FALSE

\* labels.ts createOctokit: throws when the token is missing.
createOctokitThrows(cfg) == cfg.token = ""

\* main, step 5: deduplicate.  fetchExistingIssuesByFingerprint calls
\* createOctokit first; the error reaches main().catch and the process exits.
DeduplicateNoToken ==
    /\ pc = "dedup"
    /\ createOctokitThrows(config)
    /\ pc' = "fatal"
    /\ UNCHANGED <<repo, issues, labels, config, run, allRaw, findings, dedup,
                   processVars, log, prev, plannerVars>>

\* The listing request fails: deduplicate rejects and the run ends.
DeduplicateListFail ==
    /\ pc = "dedup"
    /\ ~createOctokitThrows(config)
    /\ log' = Append(log, Request("list", "issues", FALSE))
    /\ pc' = "fatal"
    /\ UNCHANGED <<repo, issues, labels, config, run, allRaw, findings, dedup,
                   processVars, prev, plannerVars>>

Deduplicate ==
    /\ pc = "dedup"
    /\ ~createOctokitThrows(config)
    /\ log' = Append(log, Request("list", "issues", TRUE))
    /\ dedup' = deduplicate(findings, fetchExistingIssuesByFingerprint(issues, config))
    /\ pc' = "labels"
    /\ UNCHANGED <<repo, issues, labels, config, run, allRaw, findings,
                   processVars, prev, plannerVars>>

\* The labels ensureLabels looks up, in order: the required labels, then the
\* demo label when one is set (issues.extraLabels is empty).
LabelsToEnsure(cfg) ==
    REQUIRED_LABELS \o (IF cfg.demoLabel # NoLabel THEN <<cfg.demoLabel>> ELSE <<>>)

\* The createLabel requests sent for the first n of these labels: one for
\* each label the tracker answers 404 for.
RECURSIVE LabelRequests(_, _, _)
LabelRequests(existing, names, n) ==
    IF n = 0 THEN <<>>
    ELSE LabelRequests(existing, names, n - 1) \o
         (IF names[n] \in existing THEN <<>>
          ELSE <<Request("createLabel", names[n], TRUE)>>)

\* main, step 6: ensureLabels succeeds, and processIssues starts: it sorts
\* the new findings and enters its first loop.
EnsureLabels ==
    /\ pc = "labels"
    /\ labels' = labels \cup Range(LabelsToEnsure(config))
    /\ log' = log \o LabelRequests(labels, LabelsToEnsure(config),
                                   Len(LabelsToEnsure(config)))
    /\ sortedNew' = sortBySeverity(dedup.newFindings)
    /\ idx' = 1
    /\ created' = 0
    /\ results' = <<>>
    /\ pc' = "create"
    /\ UNCHANGED <<repo, issues, config, run, allRaw, findings, dedup, closeIdx,
                   prev, plannerVars>>

\* ensureLabels rethrows an unexpected error of the request for label n; the
\* labels before it are in place.
EnsureLabelsFail ==
    /\ pc = "labels"
    /\ \E n \in 1..Len(LabelsToEnsure(config)) :
          /\ labels' = labels \cup { LabelsToEnsure(config)[k] : k \in 1..(n - 1) }
          /\ log' = log \o LabelRequests(labels, LabelsToEnsure(config), n - 1)
    /\ pc' = "fatal"
    /\ UNCHANGED <<repo, issues, config, run, allRaw, findings, dedup,
                   processVars, prev, plannerVars>>

----------------------------------------------------------------------------
(* github/issues.ts: processIssues *)

\* Mutant of CreateLoopRuns: the cap is not looked at.
CreateLoopIgnoresCap == idx <= Len(sortedNew)

\* Mutant of CreateLoopRuns: the cap is compared with <=.
CreateLoopOffByOne == idx <= Len(sortedNew) /\ created <= config.maxPerRun

\* Mutant of CreateLoopRuns: the loop breaks one create before the cap.
CreateLoopStopsEarly == idx <= Len(sortedNew) /\ created + 1 < config.maxPerRun

\* The first loop goes on: a finding is left and the cap is not reached.
CreateLoopRuns == idx <= Len(sortedNew) /\ created < config.maxPerRun

\* createIssueForFinding's result.
CreatedResult(issueNumber, finding) ==
    [issueNumber |-> issueNumber, action |-> "created", finding |-> finding]

\* Mutant of SkippedResult: the result does not carry the open issue's number.
SkippedResultWithoutIssue(entry) ==
    [issueNumber |-> 0, action |-> "skipped", finding |-> entry.finding]

SkippedResult(entry) ==
    [issueNumber |-> entry.issueNumber, action |-> "skipped", finding |-> entry.finding]

ClosedResult(issueNumber) == [issueNumber |-> issueNumber, action |-> "closed"]

\* Loop 1, try branch: the create request succeeds.
CreateIssueOk ==
    /\ pc = "create"
    /\ CreateLoopRuns
    /\ LET finding == sortedNew[idx]
       IN  /\ issues' = Append(issues, NewIssue(finding, config))
           /\ results' = Append(results, CreatedResult(Len(issues) + 1, finding))
           /\ log' = Append(log, Request("create", finding.rawId, TRUE))
    /\ created' = created + 1
    /\ idx' = idx + 1
    /\ UNCHANGED <<repo, labels, config, pc, run, allRaw, findings, dedup,
                   sortedNew, closeIdx, prev, plannerVars>>

\* Mutant of CreateIssueFail: the error is rethrown and ends the run.
CreateIssueFailAborts ==
    /\ pc = "create"
    /\ idx <= Len(sortedNew) /\ created < config.maxPerRun
    /\ log' = Append(log, Request("create", sortedNew[idx].rawId, FALSE))
    /\ pc' = "fatal"
    /\ UNCHANGED <<repo, issues, labels, config, run, allRaw, findings, dedup,
                   processVars, prev, plannerVars>>

\* Loop 1, catch branch: the create request fails, the loop continues.
CreateIssueFail ==
    /\ pc = "create"
    /\ CreateLoopRuns
    /\ log' = Append(log, Request("create", sortedNew[idx].rawId, FALSE))
    /\ idx' = idx + 1
    /\ UNCHANGED <<repo, issues, labels, config, pc, run, allRaw, findings, dedup,
                   sortedNew, created, results, closeIdx, prev, plannerVars>>

\* Where processIssues stands once the close of entry j - 1 is over.
CloseLoopPc(j) ==
    IF j <= Len(dedup.resolvedIssueNumbers) THEN "comment" ELSE "done"

\* Mutant of SkipExisting: loop 3 is entered whatever autoClose is.
SkipExistingThenCloses ==
    /\ pc = "create"
    /\ ~CreateLoopRuns
    /\ results' = results \o
          [i \in 1..Len(dedup.existingFindings) |->
              SkippedResult(dedup.existingFindings[i])]
    /\ closeIdx' = 1
    /\ pc' = CloseLoopPc(1)
    /\ UNCHANGED <<repo, issues, labels, config, run, allRaw, findings, dedup,
                   sortedNew, idx, created, log, prev, plannerVars>>

\* Loop 1 ends (list exhausted, or break at the cap); loop 2 pushes a skipped
\* result per existing finding; loop 3 is entered when autoClose is set.
SkipExisting ==
    /\ pc = "create"
    /\ ~CreateLoopRuns
    /\ results' = results \o
          [i \in 1..Len(dedup.existingFindings) |->
              SkippedResult(dedup.existingFindings[i])]
    /\ closeIdx' = 1
    /\ pc' = IF config.autoClose THEN CloseLoopPc(1) ELSE "done"
    /\ UNCHANGED <<repo, issues, labels, config, run, allRaw, findings, dedup,
                   sortedNew, idx, created, log, prev, plannerVars>>

\* closeResolvedIssue: the comment request succeeds.
CommentOk ==
    /\ pc = "comment"
    /\ LET issueNumber == dedup.resolvedIssueNumbers[closeIdx]
       IN  /\ issues' = [issues EXCEPT ![issueNumber].comments = @ + 1]
           /\ log' = Append(log, Request("comment", issueNumber, TRUE))
    /\ pc' = "update"
    /\ UNCHANGED <<repo, labels, config, run, allRaw, findings, dedup,
                   processVars, prev, plannerVars>>

\* closeResolvedIssue throws at the comment; processIssues logs and goes on.
CommentFail ==
    /\ pc = "comment"
    /\ log' = Append(log, Request("comment", dedup.resolvedIssueNumbers[closeIdx], FALSE))
    /\ closeIdx' = closeIdx + 1
    /\ pc' = CloseLoopPc(closeIdx')
    /\ UNCHANGED <<repo, issues, labels, config, run, allRaw, findings, dedup,
                   sortedNew, idx, created, results, prev, plannerVars>>

\* closeResolvedIssue: the state update succeeds and the result is pushed.
UpdateOk ==
    /\ pc = "update"
    /\ LET issueNumber == dedup.resolvedIssueNumbers[closeIdx]
       IN  /\ issues' = [issues EXCEPT ![issueNumber].state = "closed"]
           /\ results' = Append(results, ClosedResult(issueNumber))
           /\ log' = Append(log, Request("update", issueNumber, TRUE))
    /\ closeIdx' = closeIdx + 1
    /\ pc' = CloseLoopPc(closeIdx')
    /\ UNCHANGED <<repo, labels, config, run, allRaw, findings, dedup,
                   sortedNew, idx, created, prev, plannerVars>>

\* Mutant of UpdateFail: the closed result is pushed although the update
\* failed.
UpdateFailPushesResult ==
    /\ pc = "update"
    /\ log' = Append(log, Request("update", dedup.resolvedIssueNumbers[closeIdx], FALSE))
    /\ results' = Append(results, ClosedResult(dedup.resolvedIssueNumbers[closeIdx]))
    /\ closeIdx' = closeIdx + 1
    /\ pc' = CloseLoopPc(closeIdx')
    /\ UNCHANGED <<repo, issues, labels, config, run, allRaw, findings, dedup,
                   sortedNew, idx, created, prev, plannerVars>>

\* closeResolvedIssue throws at the state update, after the comment.
UpdateFail ==
    /\ pc = "update"
    /\ log' = Append(log, Request("update", dedup.resolvedIssueNumbers[closeIdx], FALSE))
    /\ closeIdx' = closeIdx + 1
    /\ pc' = CloseLoopPc(closeIdx')
    /\ UNCHANGED <<repo, issues, labels, config, run, allRaw, findings, dedup,
                   sortedNew, idx, created, results, prev, plannerVars>>

\* The process ends (results printed, early return, or exit 1); the tracker
\* keeps what the run did to it.
EndRun ==
    /\ pc \in {"done", "exit", "fatal"}
    /\ prev' = [completed |-> pc = "done", demoLabel |-> config.demoLabel,
                newCount |-> Len(dedup.newFindings), created |-> created]
    /\ pc' = "idle"
    /\ config' = NoConfig
    /\ allRaw' = <<>>
    /\ findings' = <<>>
    /\ dedup' = NoDedup
    /\ sortedNew' = <<>>
    /\ idx' = 1
    /\ created' = 0
    /\ results' = <<>>
    /\ closeIdx' = 1
    /\ log' = <<>>
    /\ UNCHANGED <<repo, issues, labels, run, plannerVars>>

\* The steps of a run once it has started.
RunSteps ==
    \/ DeduplicateNoToken
    \/ DeduplicateListFail
    \/ Deduplicate
    \/ EnsureLabels
    \/ EnsureLabelsFail
    \/ CreateIssueOk
    \/ CreateIssueFail
    \/ SkipExisting
    \/ CommentOk
    \/ CommentFail
    \/ UpdateOk
    \/ UpdateFail

\* One run of main() against a tracker.
Start == StartRun(1)

Next ==
    \/ Start
    \/ RunSteps

Spec == Init /\ [][Next]_vars

\* Runs of main() one after the other, each against the tracker the runs
\* before it left.
StartAgain == StartRun(MaxRuns)

NextRuns ==
    \/ StartAgain
    \/ RunSteps
    \/ EndRun

SpecRuns == InitRuns /\ [][NextRuns]_vars

\* Runs of main() without end on a repository that does not change, with a
\* token, issues enabled, a cap of at least one and autoClose off; run counts
\* the runs up to MaxRuns.
StartNext ==
    /\ pc = "idle"
    /\ \E cap \in 1..MaxCap :
          config' = [enabled |-> TRUE, token |-> "ghp_token", maxPerRun |-> cap,
                     autoClose |-> FALSE, demoLabel |-> NoLabel, persona |-> "default"]
    /\ run' = IF run < MaxRuns THEN run + 1 ELSE run
    /\ allRaw' = repo
    /\ findings' = normalize(allRaw')
    /\ pc' = "dedup"
    /\ dedup' = NoDedup
    /\ sortedNew' = <<>>
    /\ idx' = 1
    /\ created' = 0
    /\ results' = <<>>
    /\ closeIdx' = 1
    /\ log' = <<>>
    /\ UNCHANGED <<repo, issues, labels, prev, plannerVars>>

NextFiling ==
    \/ StartNext
    \/ Deduplicate
    \/ EnsureLabels
    \/ CreateIssueOk
    \/ CreateIssueFail
    \/ SkipExisting
    \/ EndRun

\* The process takes its next step and a run follows the run that ended
\* (weak fairness of the steps other than the create request), and a create
\* request that is sent again and again succeeds in the end (strong fairness
\* of its success).  The list request is answered, so that the process does
\* not wait at "dedup" for ever: with the token set Deduplicate is enabled
\* wherever pc = "dedup" and is the only step of NextFiling there, which makes
\* this its weak fairness, stated on pc.
SpecFiling ==
    /\ InitRuns
    /\ [][NextFiling]_vars
    /\ WF_vars(StartNext \/ EnsureLabels \/ SkipExisting \/ EndRun)
    /\ []<>(pc # "dedup")
    /\ SF_vars(CreateIssueOk)

----------------------------------------------------------------------------
(* llm_planner/checks.ts: runStaticChecks *)

\* STATIC_CHECK_PATTERNS: the names of the patterns of each category.
OwnCategories ==
    {"injection", "auth-bypass", "info-disclosure", "misconfiguration",
     "secret-leak", "dependency"}

STATIC_CHECK_PATTERNS(category) ==
    CASE category = "injection"
            -> <<"string-concatenated-query", "unsanitized-input", "eval-usage">>
      [] category = "auth-bypass"
            -> <<"missing-auth-middleware", "jwt-none-algorithm", "hardcoded-token-check">>
      [] category = "info-disclosure"
            -> <<"stack-trace-exposure", "verbose-error", "console-log-sensitive">>
      [] category = "misconfiguration"
            -> <<"cors-wildcard", "debug-enabled", "missing-helmet">>
      [] category = "secret-leak" -> <<"hardcoded-credential", "dotenv-in-source">>
      [] category = "dependency" -> <<"outdated-package", "no-lockfile-integrity">>

\* Keys every object literal inherits: the lookup returns a function, which
\* is not nullish and not iterable.
InheritedKeys == {"toString", "constructor", "valueOf", "hasOwnProperty"}

NotIterable == <<"[Function]">>

\* STATIC_CHECK_PATTERNS[hypothesis.category] ?? []
CategoryPatterns(category) ==
    IF category \in OwnCategories THEN STATIC_CHECK_PATTERNS(category)
    ELSE IF category \in InheritedKeys THEN NotIterable
    ELSE <<>>

\* loc.split(":")[0]
SplitColonFirst(loc) ==
    CASE loc = "src/db.ts:queryUser" -> "src/db.ts"
      [] loc = "src/routes.ts:42" -> "src/routes.ts"
      [] OTHER -> loc

\* String.prototype.toLowerCase on the code fragments of the model.
ToLowerCase(s) ==
    CASE s = "Eval(" -> "eval("
      [] s = "HTTP://" -> "http://"
      [] s = "LOCALHOST" -> "localhost"
      [] s = "Staging.Example" -> "staging.example"
      [] s = "DROP" -> "drop"
      [] s = "TABLE" -> "table"
      [] s = "CORS" -> "cors"
      [] OTHER -> s

StringLength(s) ==
    CASE s = "id" -> 2
      [] s = "Eval(" -> 5
      [] s = "db.query(sql)" -> 13
      [] s = "<call chain from the route handler to the sink, 1100 characters>" -> 1100
      [] s = "<LF>" -> 1
      [] s = "<matches.length>" -> 1
      [] s = " " -> 1
      [] s = "CORS" -> 4
      [] s = "allows" -> 6
      [] s = "any" -> 3
      [] s = "origin" -> 6
      [] s = "total" -> 5
      [] s = "goes" -> 4
      [] s = "to" -> 2
      [] s = "reaches" -> 7
      [] s = "takes" -> 5
      [] s = "grep" -> 4
      [] s = "for" -> 3
      [] s = "curl" -> 4
      [] s = "http://" -> 7
      [] s = "localhost" -> 9
      [] s = ":" -> 1
      [] s = "3000" -> 4
      [] s = "/" -> 1
      [] s = "health" -> 6
      [] s = "probe" -> 5
      [] s = "HTTP://" -> 7
      [] s = "LOCALHOST" -> 9
      [] s = "SQL injection in queryUser" -> 26
      [] s = "SQL injection via the order route" -> 33
      [] s = "Wildcard CORS" -> 13
      [] s = "Order total tampering" -> 21
      [] s = "Prototype abuse" -> 15
      [] s = "Eval of request input" -> 21
      [] s = "injection" -> 9
      [] s = "misconfiguration" -> 16
      [] s = "business-logic" -> 14
      [] s = "toString" -> 8
      [] s = "high" -> 4
      [] s = "medium" -> 6
      [] s = "low" -> 3
      [] s = "src/db.ts" -> 9
      [] s = "src/routes.ts" -> 13
      [] s = "src/missing.ts" -> 14
      [] s = "N/A" -> 3
      [] s = ", " -> 2
      [] s = "string-concatenated-query" -> 25
      [] s = "unsanitized-input" -> 17
      [] s = "eval-usage" -> 10
      [] s = "cors-wildcard" -> 13
      [] s = "debug-enabled" -> 13
      [] s = "missing-helmet" -> 14
      [] s = "**Hypothesis:** " -> 16
      [] s = "**Category:** " -> 14
      [] s = "**Confidence:** " -> 16
      [] s = "**Why the code suggests this:**" -> 31
      [] s = "**Evidence collected:**" -> 23
      [] s = "**Files inspected:** " -> 21
      [] s = "**Safe reproduction steps:**" -> 28
      [] s = "Static analysis found supporting evidence:" -> 42
      [] s = "No supporting evidence found via static analysis." -> 49
      [] s = "Pattern '" -> 9
      [] s = "' matched " -> 10
      [] s = " time(s) in " -> 12

\* A text is the sequence of its tokens, white space included.  These tokens
\* are back-ticked spans, written without their back-ticks.
CodeSpans == {"db.query(sql)", "id", "Eval("}

\* extractKeywords: the back-ticked spans of the rationale, without the
\* back-ticks, of length 3 at least.
extractKeywords(rationale) ==
    LET longEnough(r) == r \in CodeSpans /\ StringLength(r) >= 3
    IN  SelectSeq(rationale, longEnough)

\* A file is missing or has a content; a content is what the checks read of
\* it: the patterns that match it and the (lower-cased) fragments it contains.
Missing == [missing |-> TRUE]

existsSync(fs, filePath) == filePath \in DOMAIN fs /\ fs[filePath] # Missing

\* content.match(pattern) is not null.
Matches(content, name) == name \in content.patterns

\* content.toLowerCase().includes(keyword.toLowerCase())
Includes(content, keyword) == ToLowerCase(keyword) \in content.text

EvidenceLine(name, filePath) == [pattern |-> name, file |-> filePath]

\* The loop over categoryPatterns for one file.
RECURSIVE PatternLoop(_, _, _, _, _)
PatternLoop(patterns, i, content, filePath, acc) ==
    IF i > Len(patterns) THEN acc
    ELSE IF Matches(content, patterns[i])
         THEN PatternLoop(patterns, i + 1, content, filePath,
                  [locations |-> Append(acc.locations, filePath),
                   evidenceDetails |->
                      Append(acc.evidenceDetails, EvidenceLine(patterns[i], filePath))])
         ELSE PatternLoop(patterns, i + 1, content, filePath, acc)

\* Mutant of KeywordLoop: a fragment found in the file counts as evidence.
RECURSIVE KeywordLoopAddsEvidence(_, _, _, _, _)
KeywordLoopAddsEvidence(keywords, i, content, filePath, acc) ==
    IF i > Len(keywords) THEN acc
    ELSE IF Includes(content, keywords[i])
         THEN KeywordLoopAddsEvidence(keywords, i + 1, content, filePath,
                  [locations |-> Append(acc.locations, filePath),
                   evidenceDetails |->
                      Append(acc.evidenceDetails, EvidenceLine(keywords[i], filePath))])
         ELSE KeywordLoopAddsEvidence(keywords, i + 1, content, filePath, acc)

\* The loop over the keywords of the rationale for one file.
RECURSIVE KeywordLoop(_, _, _, _, _)
KeywordLoop(keywords, i, content, filePath, acc) ==
    IF i > Len(keywords) THEN acc
    ELSE IF Includes(content, keywords[i]) /\ filePath \notin Range(acc.locations)
         THEN KeywordLoop(keywords, i + 1, content, filePath,
                  [acc EXCEPT !.locations = Append(@, filePath)])
         ELSE KeywordLoop(keywords, i + 1, content, filePath, acc)

\* The loop over likely_locations.  A category whose lookup is not iterable
\* makes the for-of throw inside the try: the catch skips the file.
RECURSIVE LocationLoop(_, _, _, _)
LocationLoop(hypothesis, fs, i, acc) ==
    IF i > Len(hypothesis.likely_locations) THEN acc
    ELSE LET filePath == SplitColonFirst(hypothesis.likely_locations[i])
             categoryPatterns == CategoryPatterns(hypothesis.category)
         IN  IF ~existsSync(fs, filePath)
             THEN LocationLoop(hypothesis, fs, i + 1, acc)
             ELSE IF categoryPatterns = NotIterable
             THEN LocationLoop(hypothesis, fs, i + 1, acc)
             ELSE LocationLoop(hypothesis, fs, i + 1,
                      KeywordLoop(extractKeywords(hypothesis.rationale), 1,
                          fs[filePath], filePath,
                          PatternLoop(categoryPatterns, 1, fs[filePath], filePath, acc)))

\* [...new Set(locations)]: first occurrences, in order.
RECURSIVE Unique(_)
Unique(seq) ==
    IF seq = <<>> THEN <<>>
    ELSE LET front == Unique(SubSeq(seq, 1, Len(seq) - 1))
         IN  IF seq[Len(seq)] \in Range(front) THEN front
             ELSE Append(front, seq[Len(seq)])

runStaticChecks(hypothesis, fs) ==
    LET acc == LocationLoop(hypothesis, fs, 1,
                            [locations |-> <<>>, evidenceDetails |-> <<>>])
        evidenceFound == Len(acc.evidenceDetails) > 0
    IN  [hypothesisId |-> hypothesis.id,
         evidenceFound |-> evidenceFound,
         details |-> acc.evidenceDetails,
         locations |-> Unique(acc.locations)]

----------------------------------------------------------------------------
(* llm_planner/issues.ts *)

Null == [rawId |-> "null"]

mapCategory(category) ==
    CASE category \in {"injection", "secret-leak"} -> "secret"
      [] category \in {"auth-bypass", "info-disclosure", "misconfiguration"} -> "http"
      [] category = "dependency" -> "dependency"
      [] category \in InheritedKeys -> "[Function]"
      [] OTHER -> "http"

\* A finding located at the first location as the hypothesis cites it.
LocationPathAsCited(hypothesis, result) == hypothesis.likely_locations[1]

\* checkResult.locations[0] ?? hypothesis.likely_locations[0] ?? "unknown"
LocationPath(hypothesis, result) ==
    IF result.locations # <<>> THEN result.locations[1]
    ELSE IF hypothesis.likely_locations # <<>> THEN hypothesis.likely_locations[1]
    ELSE "unknown"

\* A string of the model as one piece.  A back-ticked span is written
\* without its two back-ticks.
Piece(s) == [s |-> s, n |-> StringLength(s) + (IF s \in CodeSpans THEN 2 ELSE 0)]

\* lines.join(sep) on lines given by their pieces.
RECURSIVE Join(_, _)
Join(lines, sep) ==
    IF lines = <<>> THEN <<>>
    ELSE IF Len(lines) = 1 THEN lines[1]
    ELSE lines[1] \o <<Piece(sep)>> \o Join(Tail(lines), sep)

\* checkResult.details: the head line and one line for each match (the
\* number of matches is taken to have one digit).
DetailsPieces(result) ==
    IF ~result.evidenceFound
    THEN <<Piece("No supporting evidence found via static analysis.")>>
    ELSE Join(<< <<Piece("Static analysis found supporting evidence:")>> >> \o
              [i \in 1..Len(result.details) |->
                  <<Piece("Pattern '"), Piece(result.details[i].pattern),
                    Piece("' matched "), Piece("<matches.length>"),
                    Piece(" time(s) in "), Piece(result.details[i].file)>>],
              "<LF>")

buildEvidenceBlock(hypothesis, result) ==
    LET text(tokens) == [i \in 1..Len(tokens) |-> Piece(tokens[i])]
        inspected == [i \in 1..Len(result.locations) |-> <<Piece(result.locations[i])>>]
    IN  Join(<< <<Piece("**Hypothesis:** "), Piece(hypothesis.title)>>,
                <<Piece("**Category:** "), Piece(hypothesis.category)>>,
                <<Piece("**Confidence:** "), Piece(hypothesis.confidence)>>,
                <<>>,
                <<Piece("**Why the code suggests this:**")>>,
                text(hypothesis.rationale),
                <<>>,
                <<Piece("**Evidence collected:**")>>,
                DetailsPieces(result),
                <<>>,
                <<Piece("**Files inspected:** ")>> \o
                    (IF inspected = <<>> THEN <<Piece("N/A")>> ELSE Join(inspected, ", ")),
                <<>>,
                <<Piece("**Safe reproduction steps:**")>>,
                text(hypothesis.safe_test_plan) >>,
             "<LF>")

buildRemediationBlock(hypothesis) ==
    <<"Review the identified code locations and apply appropriate security controls.">>
        \o (IF Len(hypothesis.references) > 0
            THEN <<"<LF><LF>References: ">> \o hypothesis.references
            ELSE <<>>)

\* The finding hypothesisToFinding builds when it builds one.
ConfirmedFinding(hypothesis, result) ==
    [rawId |-> <<"llm-planner-", hypothesis.id>>,
     title |-> hypothesis.title,
     severity |-> hypothesis.risk,
     tool |-> "llm-planner",
     category |-> mapCategory(hypothesis.category),
     path |-> LocationPath(hypothesis, result),
     startLine |-> 0,
     evidence |-> buildEvidenceBlock(hypothesis, result),
     remediation |-> buildRemediationBlock(hypothesis)]

\* Mutant of hypothesisToFinding: the evidence gate is missing.
hypothesisToFindingUngated(hypothesis, result) == ConfirmedFinding(hypothesis, result)

hypothesisToFinding(hypothesis, result) ==
    IF ~result.evidenceFound THEN Null
    ELSE ConfirmedFinding(hypothesis, result)

----------------------------------------------------------------------------
(* index.ts: main, step 2b, the loop over the hypotheses *)

\* Hypotheses that pass the schema and the default allow-list.
HypothesisCatalog == {
    [id |-> "HYPO-001", title |-> "SQL injection in queryUser",
     category |-> "injection", risk |-> "critical", confidence |-> "high",
     rationale |-> <<"db.query(sql)">>,
     evidence_to_collect |-> "query construction",
     safe_test_plan |-> <<"grep", " ", "for", " ", "db.query(sql)">>,
     likely_locations |-> <<"src/db.ts:queryUser">>,
     references |-> <<"CWE-89">>],
    [id |-> "HYPO-002", title |-> "Wildcard CORS",
     category |-> "misconfiguration", risk |-> "medium", confidence |-> "medium",
     rationale |-> <<"CORS", " ", "allows", " ", "any", " ", "origin">>,
     evidence_to_collect |-> "CORS configuration",
     safe_test_plan |-> <<"curl", " ", "http://", "localhost", ":", "3000", "/", "health">>,
     likely_locations |-> <<"src/missing.ts", "src/routes.ts:42">>,
     references |-> <<>>],
    [id |-> "HYPO-003", title |-> "Order total tampering",
     category |-> "business-logic", risk |-> "high", confidence |-> "low",
     rationale |-> <<"total", " ", "goes", " ", "to", " ", "db.query(sql)">>,
     evidence_to_collect |-> "price validation",
     safe_test_plan |-> <<"probe", " ", "HTTP://", "LOCALHOST", "/">>,
     likely_locations |-> <<"src/db.ts">>,
     references |-> <<"CWE-20">>],
    [id |-> "HYPO-004", title |-> "Prototype abuse",
     category |-> "toString", risk |-> "low", confidence |-> "low",
     rationale |-> <<"id", " ", "reaches", " ", "db.query(sql)">>,
     evidence_to_collect |-> "object merge",
     safe_test_plan |-> <<"grep", " ", "for", " ", "id">>,
     likely_locations |-> <<"src/db.ts:queryUser", "src/routes.ts">>,
     references |-> <<>>],
    [id |-> "HYPO-005", title |-> "Eval of request input",
     category |-> "injection", risk |-> "high", confidence |-> "medium",
     rationale |-> <<"Eval(", " ", "takes", " ", "id", " ",
                   "<call chain from the route handler to the sink, 1100 characters>">>,
     evidence_to_collect |-> "eval call sites",
     safe_test_plan |-> <<"grep", " ", "for", " ", "Eval(">>,
     likely_locations |-> <<"src/routes.ts", "src/db.ts:queryUser">>,
     references |-> <<"CWE-95">>],
    [id |-> "HYPO-006", title |-> "SQL injection via the order route",
     category |-> "injection", risk |-> "high", confidence |-> "medium",
     rationale |-> <<"id", " ", "reaches", " ", "db.query(sql)">>,
     evidence_to_collect |-> "query construction",
     safe_test_plan |-> <<"grep", " ", "for", " ", "db.query(sql)">>,
     likely_locations |-> <<"src/routes.ts:42", "src/db.ts:queryUser">>,
     references |-> <<"CWE-89">>] }

----------------------------------------------------------------------------
(* llm_planner/models.ts: validateHypothesis, validatePlannerResponse *)

\* A property the decoded object does not have, as an atom, a text or a list.
Undefined == "<undefined>"

UndefinedText == <<"<undefined>">>

\* An array element that is not a string.
NotAString == "<number>"

\* The JSON value null in the place of a hypothesis.
JsonNull ==
    [f \in {"id", "title", "category", "risk", "confidence", "rationale",
           "evidence_to_collect", "safe_test_plan", "likely_locations",
           "references"} |->
        IF f \in {"rationale", "safe_test_plan", "likely_locations", "references"}
        THEN <<"<null>">> ELSE "<null>"]

VALID_RISK == {"critical", "high", "medium", "low"}

VALID_CONFIDENCE == {"high", "medium", "low"}

ErrorIf(test, message) == IF test THEN <<message>> ELSE <<>>

validateHypothesis(obj) ==
    IF obj = JsonNull THEN <<"Hypothesis must be a non-null object">>
    ELSE ErrorIf(obj.id \in {Undefined, ""}, "id must be a non-empty string")
      \o ErrorIf(obj.title \in {Undefined, ""}, "title must be a non-empty string")
      \o ErrorIf(obj.category \in {Undefined, ""}, "category must be a non-empty string")
      \o ErrorIf(obj.risk \notin VALID_RISK, "risk must be one of: critical, high, medium, low")
      \o ErrorIf(obj.confidence \notin VALID_CONFIDENCE,
                 "confidence must be one of: high, medium, low")
      \o ErrorIf(obj.rationale \in {UndefinedText, <<>>}, "rationale must be a non-empty string")
      \o ErrorIf(obj.evidence_to_collect \in {Undefined, ""},
                 "evidence_to_collect must be a non-empty string")
      \o ErrorIf(obj.safe_test_plan \in {UndefinedText, <<>>},
                 "safe_test_plan must be a non-empty string")
      \o (IF obj.likely_locations \in {UndefinedText, <<>>}
          THEN <<"likely_locations must be a non-empty array of strings">>
          ELSE ErrorIf(NotAString \in Range(obj.likely_locations),
                       "likely_locations must contain only strings"))
      \o (IF obj.references = UndefinedText
          THEN <<"references must be an array">>
          ELSE ErrorIf(NotAString \in Range(obj.references),
                       "references must contain only strings"))

\* The errors of hypotheses[i], i counted from 0, each with its index.
RECURSIVE ResponseErrors(_, _)
ResponseErrors(hs, n) ==
    IF n = 0 THEN <<>>
    ELSE ResponseErrors(hs, n - 1) \o
         [k \in 1..Len(validateHypothesis(hs[n])) |->
             <<n - 1, validateHypothesis(hs[n])[k]>>]

validatePlannerResponse(obj) ==
    IF obj.kind = "null" THEN <<"Response must be a non-null object">>
    ELSE IF obj.kind # "object" THEN <<"Response must contain a 'hypotheses' array">>
    ELSE ResponseErrors(obj.hypotheses, Len(obj.hypotheses))

----------------------------------------------------------------------------
(* llm_planner/guardrails.ts *)

isLLMPlannerEnabled(cfg) == cfg.enabled = TRUE

DEFAULT_TARGET_ALLOWLIST == << <<"localhost">>, <<"127.0.0.1">>, <<":", ":", "1">> >>

REDACTED == "[REDACTED: unsafe command]"

\* A match of the first dangerous pattern: a ```bash block, the fence followed
\* by a line break, that calls curl, wget, nc, ... on something other than
\* localhost.  A JSON string value holds no line break, so the pattern
\* matches in prose only.
FencedExternalCommand == "<bash block: curl https://evil.example/x>"

\* The first place at or after i that holds no white space (\s*).
RECURSIVE SkipSpaces(_, _)
SkipSpaces(text, i) ==
    IF i <= Len(text) /\ text[i] = " " THEN SkipSpaces(text, i + 1) ELSE i

\* The first place at or after i that holds white space, or the place after
\* the end (\S*).
RECURSIVE SkipNonSpaces(_, _)
SkipNonSpaces(text, i) ==
    IF i <= Len(text) /\ text[i] # " " THEN SkipNonSpaces(text, i + 1) ELSE i

\* /rm\s+-rf\s+\S*/gi at place i: the place after the match, 0 for no match.
\* Within a string value the closing quote is not white space: \s+ does not
\* match at the end of the value, and \S* that reaches the end of the value
\* runs on through the quote (the place after the match is beyond the end).
MatchRmRf(text, i) ==
    IF ToLowerCase(text[i]) # "rm" THEN 0
    ELSE LET a == SkipSpaces(text, i + 1)
         IN  IF a = i + 1 \/ a > Len(text) \/ ToLowerCase(text[a]) # "-rf" THEN 0
             ELSE LET b == SkipSpaces(text, a + 1)
                  IN  IF b = a + 1 THEN 0
                      ELSE IF b > Len(text) THEN Len(text) + 2
                      ELSE IF SkipNonSpaces(text, b) > Len(text) THEN Len(text) + 2
                      ELSE SkipNonSpaces(text, b)

\* /;\s*(drop|delete|truncate)\s+/gi at place i.
MatchSqlVerb(text, i) ==
    IF text[i] # ";" THEN 0
    ELSE LET a == SkipSpaces(text, i + 1)
         IN  IF a > Len(text) \/ ToLowerCase(text[a]) \notin {"drop", "delete", "truncate"}
             THEN 0
             ELSE LET b == SkipSpaces(text, a + 1)
                  IN  IF b = a + 1 THEN 0 ELSE b

\* String.prototype.replace with a global pattern, from place i on: the text
\* with every match replaced, and whether a match ran over the end of the
\* string value.
RECURSIVE ReplaceAll(_, _, _)
ReplaceAll(pattern, text, i) ==
    IF i > Len(text) THEN [text |-> <<>>, overrun |-> FALSE]
    ELSE LET e == IF pattern = "rm -rf" THEN MatchRmRf(text, i)
                  ELSE MatchSqlVerb(text, i)
         IN  IF e = 0
             THEN LET rest == ReplaceAll(pattern, text, i + 1)
                  IN  [text |-> <<text[i]>> \o rest.text, overrun |-> rest.overrun]
             ELSE IF e > Len(text) + 1
             THEN [text |-> <<REDACTED>>, overrun |-> TRUE]
             ELSE LET rest == ReplaceAll(pattern, text, e)
                  IN  [text |-> <<REDACTED>> \o rest.text, overrun |-> rest.overrun]

\* The loop over dangerousPatterns on one string value.
SanitizeValue(text) ==
    LET second == ReplaceAll("rm -rf", text, 1)
        third == ReplaceAll("; drop", second.text, 1)
    IN  [text |-> third.text, overrun |-> second.overrun]

SanitizeHypothesis(h) ==
    IF h = JsonNull THEN h
    ELSE [h EXCEPT !.rationale = SanitizeValue(@).text,
                   !.safe_test_plan = SanitizeValue(@).text]

\* sanitizeLLMOutput on the text of an answer, taken to be laid out with
\* white space after every member.  The string values the patterns can
\* match in are rationale and safe_test_plan.
sanitizeLLMOutput(raw) ==
    LET fenced == [i \in 1..Len(raw.text) |->
                      IF raw.text[i] = FencedExternalCommand THEN REDACTED
                      ELSE raw.text[i]]
        overruns(h) ==
            /\ h # JsonNull
            /\ SanitizeValue(h.rationale).overrun
                  \/ SanitizeValue(h.safe_test_plan).overrun
    IN  [kind |-> raw.kind,
         hypotheses |-> [i \in 1..Len(raw.hypotheses) |->
                            SanitizeHypothesis(raw.hypotheses[i])],
         text |-> SanitizeValue(fenced).text,
         wellFormed |-> raw.wellFormed
                          /\ \A i \in 1..Len(raw.hypotheses) :
                                ~overruns(raw.hypotheses[i])]

\* a.toLowerCase().trim() on an allow-list entry.
RECURSIVE TrimEnd(_)
TrimEnd(text) ==
    IF text # <<>> /\ text[Len(text)] = " "
    THEN TrimEnd(SubSeq(text, 1, Len(text) - 1)) ELSE text

LowerTrimEntry(a) ==
    LET trimmed == TrimEnd(SubSeq(a, SkipSpaces(a, 1), Len(a)))
    IN  [i \in 1..Len(trimmed) |-> ToLowerCase(trimmed[i])]

\* The scheme of /https?:\/\/([^/\s]+)/gi.
IsScheme(t) == ToLowerCase(t) \in {"http://", "https://"}

\* The first place at or after i that holds "/" or white space ([^/\s]+).
RECURSIVE CaptureEnd(_, _)
CaptureEnd(text, i) ==
    IF i <= Len(text) /\ text[i] # "/" /\ text[i] # " "
    THEN CaptureEnd(text, i + 1) ELSE i

\* The first place at or after i that holds ":".
RECURSIVE ColonAt(_, _)
ColonAt(text, i) ==
    IF i <= Len(text) /\ text[i] # ":" THEN ColonAt(text, i + 1) ELSE i

\* match[1].split(":")[0].toLowerCase()
CapturedHostname(capture) ==
    [i \in 1..(ColonAt(capture, 1) - 1) |-> ToLowerCase(capture[i])]

\* allowlist.some((a) => hostname === a.toLowerCase().trim())
InAllowlist(hostname, allowlist) ==
    \E k \in 1..Len(allowlist) : hostname = LowerTrimEntry(allowlist[k])

\* The while loop over the matches of urlPattern in safe_test_plan, from
\* place i on: FALSE at the first hostname that is not allowed.
RECURSIVE PlanIsSafe(_, _, _)
PlanIsSafe(plan, i, allowlist) ==
    IF i > Len(plan) THEN TRUE
    ELSE IF IsScheme(plan[i]) /\ CaptureEnd(plan, i + 1) > i + 1
    THEN LET e == CaptureEnd(plan, i + 1)
         IN  IF ~InAllowlist(CapturedHostname(SubSeq(plan, i + 1, e - 1)), allowlist)
             THEN FALSE
             ELSE PlanIsSafe(plan, e, allowlist)
    ELSE PlanIsSafe(plan, i + 1, allowlist)

\* An allow-list filter that also strips the test plan of what it keeps.
filterSafeHypothesesRewriting(hs, allowlist) ==
    LET keep(h) == PlanIsSafe(h.safe_test_plan, 1, allowlist)
        kept == SelectSeq(hs, keep)
    IN  [i \in 1..Len(kept) |-> [kept[i] EXCEPT !.safe_test_plan = <<REDACTED>>]]

filterSafeHypotheses(hs, allowlist) ==
    LET keep(h) == PlanIsSafe(h.safe_test_plan, 1, allowlist)
    IN  SelectSeq(hs, keep)

\* hypotheses.slice(0, maxCount), maxCount a natural number.
limitHypotheses(hs, maxCount) ==
    SubSeq(hs, 1, IF maxCount <= Len(hs) THEN maxCount ELSE Len(hs))

Paths == {"src/db.ts", "src/routes.ts"}

Contents == {
    [patterns |-> {}, text |-> {}],
    [patterns |-> {}, text |-> {"db.query(sql)", "id"}],
    [patterns |-> {"string-concatenated-query"}, text |-> {"db.query(sql)", "id"}],
    [patterns |-> {"eval-usage", "cors-wildcard"}, text |-> {"eval("}] }

InitPlanner ==
    /\ files \in [Paths -> Contents \cup {Missing}]
    /\ hypotheses \in InjSeqs(HypothesisCatalog, MaxChecked)
    /\ checkResult = NoCheck
    /\ checked = <<>>
    /\ pc = "planner"
    /\ repo = <<>>
    /\ issues = <<>>
    /\ labels = {}
    /\ config = NoConfig
    /\ run = 1
    /\ allRaw = <<>>
    /\ findings = <<>>
    /\ dedup = NoDedup
    /\ sortedNew = <<>>
    /\ idx = 1
    /\ created = 0
    /\ results = <<>>
    /\ closeIdx = 1
    /\ log = <<>>
    /\ prev = NoPrev
    /\ GenerateIdle
    /\ env = AllScannersOk
    /\ scanIdx = 1

unchangedByPlanner ==
    UNCHANGED <<repo, issues, labels, config, run, dedup, processVars, log, prev,
                files, generateVars, scanVars>>

\* const checkResult = runStaticChecks(hypothesis, config.repoRoot)
RunStaticChecks ==
    /\ pc = "planner"
    /\ hypotheses # <<>>
    /\ checkResult' = runStaticChecks(Head(hypotheses), files)
    /\ pc' = "convert"
    /\ UNCHANGED <<hypotheses, checked, allRaw, findings>>
    /\ unchangedByPlanner

\* const finding = hypothesisToFinding(...); if (finding) allRaw.push(finding)
PushConfirmed ==
    /\ pc = "convert"
    /\ LET finding == hypothesisToFinding(Head(hypotheses), checkResult)
       IN  /\ allRaw' = IF finding # Null THEN Append(allRaw, finding) ELSE allRaw
           /\ checked' = Append(checked, [hypothesis |-> Head(hypotheses),
                                          checkResult |-> checkResult,
                                          finding |-> finding])
    /\ hypotheses' = Tail(hypotheses)
    /\ pc' = "planner"
    /\ UNCHANGED <<checkResult, findings>>
    /\ unchangedByPlanner

\* main, step 3, after the loop: findings = normalize(allRaw)
NormalizeConfirmed ==
    /\ pc = "planner"
    /\ hypotheses = <<>>
    /\ findings' = normalize(allRaw)
    /\ pc' = "normalized"
    /\ UNCHANGED <<hypotheses, checkResult, checked, allRaw>>
    /\ unchangedByPlanner

NextPlanner ==
    \/ RunStaticChecks
    \/ PushConfirmed
    \/ NormalizeConfirmed

SpecPlanner == InitPlanner /\ [][NextPlanner]_vars

----------------------------------------------------------------------------
(* utils/fingerprint.ts and normalizer.ts on findings that differ in case, *)
(* white space, line, severity and evidence                                *)

\* Raw findings that name the lodash advisory in different spellings, at
\* different lines, with different severity and evidence, and one finding of
\* another advisory.
FingerprintInputs ==
    { LodashRaw,
      [LodashRaw EXCEPT !.title = "  prototype pollution in LODASH "],
      [LodashRaw EXCEPT !.path = "Package.json (lodash) ", !.startLine = 12],
      [LodashRaw EXCEPT !.tool = "NPM-Audit", !.category = " Dependency"],
      [LodashRaw EXCEPT !.severity = "low", !.rawId = "npm-lodash-0",
                        !.evidence = <<[s |-> "Package: lodash, Severity: low", n |-> 30]>>],
      [LodashRaw EXCEPT !.startLine = 7, !.title = "  prototype pollution in LODASH ",
                        !.tool = "NPM-Audit"],
      [LodashRaw EXCEPT !.title = "Vulnerability in minimist"],
      [LodashRaw EXCEPT !.path = "package.json (minimist)"] }

InitFingerprint ==
    /\ allRaw \in InjSeqs(FingerprintInputs, MaxFindings)
    /\ files = [p \in Paths |-> Missing]
    /\ hypotheses = <<>>
    /\ checkResult = NoCheck
    /\ checked = <<>>
    /\ pc = "planner"
    /\ repo = <<>>
    /\ issues = <<>>
    /\ labels = {}
    /\ config = NoConfig
    /\ run = 1
    /\ findings = <<>>
    /\ dedup = NoDedup
    /\ sortedNew = <<>>
    /\ idx = 1
    /\ created = 0
    /\ results = <<>>
    /\ closeIdx = 1
    /\ log = <<>>
    /\ prev = NoPrev
    /\ GenerateIdle
    /\ env = AllScannersOk
    /\ scanIdx = 1

\* findings = normalize(allRaw)
NextFingerprint == NormalizeConfirmed

SpecFingerprint == InitFingerprint /\ [][NextFingerprint]_vars

----------------------------------------------------------------------------
(* github/issues.ts: createIssueForFinding on findings whose texts hold *)
(* markers of other issues                                                *)

\* Raw findings of the scanners and of the planner; the texts of the last
\* three quote the marker of the issue on qs.
BodyInputs ==
    LET quoted == "<the body of the issue on qs, quoted>"
        planner == [LodashRaw EXCEPT !.rawId = "llm-planner-HYPO-900",
                                     !.tool = "llm-planner", !.category = "http",
                                     !.severity = "medium", !.path = "src/issues.ts"]
    IN  { LodashRaw,
          CHOOSE r \in RawCatalog : r.rawId = "secret-aws-access-key-config.js-3-14",
          [planner EXCEPT !.title = "See <the marker of the issue on qs>",
                          !.evidence = <<[s |-> "**Hypothesis:** ", n |-> 16],
                                         [s |-> quoted, n |-> 400]>>],
          [planner EXCEPT !.title = "Marker spoofing",
                          !.remediation = <<"Review the identified code locations and apply appropriate security controls.",
                                            "<LF><LF>References: ", quoted>>],
          [planner EXCEPT !.title = "Marker in a leaked file", !.category = "secret",
                          !.severity = "critical",
                          !.evidence = <<[s |-> quoted, n |-> 400]>>] }

\* processIssues at the head of its first loop: labels ensured, every finding
\* new, the personas of the configuration.
InitBody ==
    /\ allRaw \in InjSeqs(BodyInputs, MaxFindings)
    /\ findings = normalize(allRaw)
    /\ dedup = [newFindings |-> findings, existingFindings |-> <<>>,
                resolvedIssueNumbers |-> <<>>, totalRaw |-> Len(findings)]
    /\ sortedNew = sortBySeverity(findings)
    /\ config \in [enabled : {TRUE}, token : {"ghp_token"}, maxPerRun : {MaxCap},
                    autoClose : {FALSE}, demoLabel : {NoLabel}, persona : {"default", "chuck_norris"}]
    /\ pc = "create"
    /\ repo = allRaw
    /\ issues = <<>>
    /\ labels = Range(REQUIRED_LABELS)
    /\ run = 1
    /\ idx = 1
    /\ created = 0
    /\ results = <<>>
    /\ closeIdx = 1
    /\ log = <<>>
    /\ prev = NoPrev
    /\ PlannerIdle

NextBody == CreateIssueOk \/ CreateIssueFail

SpecBody == InitBody /\ [][NextBody]_vars

----------------------------------------------------------------------------
(* index.ts: two processes run main, steps 5 to 7, on the same repository *)
(* and the same tracker; pc, dedup, sortedNew, idx, created and results   *)
(* hold the locals of each process                                        *)

PairRuns == {1, 2}

\* Both processes scan the same repository: findings with different
\* fingerprints, the same configuration, autoClose off.
InitPair ==
    /\ repo \in InjSeqs({ r \in RerunCatalog : r.startLine # 9 }, MaxFindings)
    /\ allRaw = repo
    /\ findings = normalize(allRaw)
    /\ config \in [enabled : {TRUE}, token : {"ghp_token"}, maxPerRun : 1..MaxCap,
                    autoClose : {FALSE}, demoLabel : {NoLabel}, persona : {"default"}]
    /\ issues \in RerunTrackers
    /\ labels = IF issues = <<>> THEN {} ELSE Range(REQUIRED_LABELS)
    /\ pc = [p \in PairRuns |-> "dedup"]
    /\ dedup = [p \in PairRuns |-> NoDedup]
    /\ sortedNew = [p \in PairRuns |-> <<>>]
    /\ idx = [p \in PairRuns |-> 1]
    /\ created = [p \in PairRuns |-> 0]
    /\ results = [p \in PairRuns |-> <<>>]
    /\ run = 2
    /\ closeIdx = 1
    /\ log = <<>>
    /\ prev = NoPrev
    /\ PlannerIdle

\* main, step 5, in process p.
PairDeduplicate(p) ==
    /\ pc[p] = "dedup"
    /\ log' = Append(log, Request("list", "issues", TRUE))
    /\ dedup' = [dedup EXCEPT ![p] =
                    deduplicate(findings, fetchExistingIssuesByFingerprint(issues, config))]
    /\ pc' = [pc EXCEPT ![p] = "labels"]
    /\ UNCHANGED <<repo, issues, labels, config, run, allRaw, findings,
                   processVars, prev, plannerVars>>

\* main, step 6, and the entry of processIssues, in process p.
PairEnsureLabels(p) ==
    /\ pc[p] = "labels"
    /\ labels' = labels \cup Range(LabelsToEnsure(config))
    /\ log' = log \o LabelRequests(labels, LabelsToEnsure(config),
                                   Len(LabelsToEnsure(config)))
    /\ sortedNew' = [sortedNew EXCEPT ![p] = sortBySeverity(dedup[p].newFindings)]
    /\ pc' = [pc EXCEPT ![p] = "create"]
    /\ UNCHANGED <<repo, issues, config, run, allRaw, findings, dedup, idx, created,
                   results, closeIdx, prev, plannerVars>>

\* processIssues, loop 1, in process p: the create request succeeds or fails.
PairCreateIssue(p) ==
    /\ pc[p] = "create"
    /\ idx[p] <= Len(sortedNew[p]) /\ created[p] < config.maxPerRun
    /\ LET finding == sortedNew[p][idx[p]]
       IN  \/ /\ issues' = Append(issues, NewIssue(finding, config))
              /\ results' = [results EXCEPT ![p] =
                                Append(@, CreatedResult(Len(issues) + 1, finding))]
              /\ log' = Append(log, Request("create", finding.rawId, TRUE))
              /\ created' = [created EXCEPT ![p] = @ + 1]
           \/ /\ log' = Append(log, Request("create", finding.rawId, FALSE))
              /\ UNCHANGED <<issues, results, created>>
    /\ idx' = [idx EXCEPT ![p] = @ + 1]
    /\ UNCHANGED <<repo, labels, config, pc, run, allRaw, findings, dedup,
                   sortedNew, closeIdx, prev, plannerVars>>

\* processIssues, loop 2, in process p; autoClose is off and the process
\* returns.
PairSkipExisting(p) ==
    /\ pc[p] = "create"
    /\ ~(idx[p] <= Len(sortedNew[p]) /\ created[p] < config.maxPerRun)
    /\ results' = [results EXCEPT ![p] = @ \o
          [i \in 1..Len(dedup[p].existingFindings) |->
              SkippedResult(dedup[p].existingFindings[i])]]
    /\ pc' = [pc EXCEPT ![p] = "done"]
    /\ UNCHANGED <<repo, issues, labels, config, run, allRaw, findings, dedup,
                   sortedNew, idx, created, closeIdx, log, prev, plannerVars>>

NextPair ==
    \E p \in PairRuns :
        \/ PairDeduplicate(p)
        \/ PairEnsureLabels(p)
        \/ PairCreateIssue(p)
        \/ PairSkipExisting(p)

SpecPair == InitPair /\ [][NextPair]_vars

----------------------------------------------------------------------------
(* LLMAttackPlanner.generateHypotheses, step by step *)

Hypo(id) == CHOOSE h \in HypothesisCatalog : h.id = id

\* Answers of the model, item by item: hypotheses with and without URLs in
\* the test plan, items that violate the schema, and items with text the
\* sanitizer's patterns match.
GuardrailCatalog == {
    Hypo("HYPO-001"),
    Hypo("HYPO-002"),
    Hypo("HYPO-003"),
    [Hypo("HYPO-001") EXCEPT !.id = "HYPO-101", !.safe_test_plan =
        <<"curl", " ", "https://", "evil.example", "/", "admin">>],
    [Hypo("HYPO-001") EXCEPT !.id = "HYPO-102", !.safe_test_plan =
        <<"curl", " ", "http://", "[", ":", ":", "1", "]", ":", "3000", "/">>],
    [Hypo("HYPO-001") EXCEPT !.id = "HYPO-103", !.safe_test_plan =
        <<"curl", " ", "http://", "localhost", ":", "80", "@", "evil.example", "/">>],
    [Hypo("HYPO-001") EXCEPT !.id = "HYPO-104", !.safe_test_plan =
        <<"curl", " ", "http://", "127.0.0.1", "/", " ", "then", " ",
          "https://", "evil.example">>],
    [Hypo("HYPO-001") EXCEPT !.id = "HYPO-105", !.safe_test_plan =
        <<"curl", " ", "https://", "Staging.Example", "/", "health">>],
    [Hypo("HYPO-001") EXCEPT !.id = "HYPO-106", !.risk = "severe"],
    [Hypo("HYPO-001") EXCEPT !.id = "", !.title = Undefined,
                             !.rationale = UndefinedText,
                             !.likely_locations = <<>>,
                             !.references = UndefinedText],
    JsonNull,
    [Hypo("HYPO-001") EXCEPT !.id = "HYPO-108", !.rationale =
        <<"input", " ", "ends", " ", "the", " ", "statement", ";", " ", "DROP", " ",
          "TABLE", " ", "users">>],
    [Hypo("HYPO-001") EXCEPT !.id = "HYPO-109", !.safe_test_plan =
        <<"check", " ", "that", " ", "rm", " ", "-rf", " ", "/tmp/x", " ", "is",
          " ", "refused">>],
    [Hypo("HYPO-001") EXCEPT !.id = "HYPO-110", !.safe_test_plan =
        <<"check", " ", "the", " ", "handling", " ", "of", " ", "rm", " ", "-rf",
          " ", "/tmp/x">>] }

ProseTexts == {
    <<"I", " ", "cannot", " ", "help", " ", "with", " ", "that">>,
    <<"Run", " ", FencedExternalCommand, " ", "then", " ", "rm", " ", "-rf", " ", "/">> }

\* result.content of the provider.
ProviderContents ==
    { LLMContent("object", hs, <<>>) : hs \in InjSeqs(GuardrailCatalog, MaxItems) }
    \cup { LLMContent(k, <<>>, <<>>) : k \in {"noHypotheses", "notArray", "null"} }
    \cup { LLMContent("prose", <<>>, t) : t \in ProseTexts }

Providers ==
    { [throws |-> FALSE, content |-> c] : c \in ProviderContents }
    \cup { [throws |-> TRUE, content |-> NoContent] }

CustomAllowlist == << <<"localhost">>, <<" ", "Staging.Example", " ">> >>

PlannerConfigs ==
    [enabled : BOOLEAN,
     targetAllowlist : {DEFAULT_TARGET_ALLOWLIST, CustomAllowlist},
     maxHypotheses : 0..MaxHypotheses]

unchangedByGenerate ==
    UNCHANGED <<repo, issues, labels, config, run, dedup, processVars, log, prev,
                files, checkResult, checked, allRaw, findings, scanVars,
                provider, plannerConfig>>

\* if (!isLLMPlannerEnabled(this.config)) return []
GenerateDisabled ==
    /\ pc = "generate"
    /\ ~isLLMPlannerEnabled(plannerConfig)
    /\ hypotheses' = <<>>
    /\ pc' = "planner"
    /\ UNCHANGED <<llmOutput, parsed, safe>>
    /\ unchangedByGenerate

\* const result = await this.provider.complete(...)
ProviderComplete ==
    /\ pc = "generate"
    /\ isLLMPlannerEnabled(plannerConfig)
    /\ ~provider.throws
    /\ llmOutput' = provider.content
    /\ pc' = "sanitize"
    /\ UNCHANGED <<hypotheses, parsed, safe>>
    /\ unchangedByGenerate

\* provider.complete rejects: missing key, HTTP error, timeout.
ProviderThrows ==
    /\ pc = "generate"
    /\ isLLMPlannerEnabled(plannerConfig)
    /\ provider.throws
    /\ pc' = "caught"
    /\ UNCHANGED <<hypotheses, llmOutput, parsed, safe>>
    /\ unchangedByGenerate

\* const sanitized = sanitizeLLMOutput(result.content)
SanitizeOutput ==
    /\ pc = "sanitize"
    /\ llmOutput' = sanitizeLLMOutput(llmOutput)
    /\ pc' = "parse"
    /\ UNCHANGED <<hypotheses, parsed, safe>>
    /\ unchangedByGenerate

\* try { parsed = JSON.parse(sanitized) } catch { return [] }
ParseResponse ==
    /\ pc = "parse"
    /\ IF llmOutput.wellFormed
       THEN /\ parsed' = [kind |-> llmOutput.kind, hypotheses |-> llmOutput.hypotheses]
            /\ pc' = "validate"
            /\ UNCHANGED hypotheses
       ELSE /\ hypotheses' = <<>>
            /\ pc' = "planner"
            /\ UNCHANGED parsed
    /\ UNCHANGED <<llmOutput, safe>>
    /\ unchangedByGenerate

\* Validation that rejects the whole batch when one item is invalid.
ValidateResponseAllOrNothing ==
    /\ pc = "validate"
    /\ IF validatePlannerResponse(parsed) = <<>>
       THEN /\ pc' = "filter"
            /\ UNCHANGED parsed
       ELSE /\ parsed' = [kind |-> "object", hypotheses |-> <<>>]
            /\ pc' = "filter"
    /\ UNCHANGED <<hypotheses, llmOutput, safe>>
    /\ unchangedByGenerate

\* const errors = validatePlannerResponse(parsed); if (errors.length > 0)
\* parsed.hypotheses = (parsed.hypotheses ?? []).filter(...).  Reading
\* .hypotheses of null, and .filter of a value that is not an array, throw.
ValidateResponse ==
    /\ pc = "validate"
    /\ IF validatePlannerResponse(parsed) = <<>>
       THEN /\ pc' = "filter"
            /\ UNCHANGED parsed
       ELSE IF parsed.kind \in {"null", "notArray"}
       THEN /\ pc' = "caught"
            /\ UNCHANGED parsed
       ELSE LET valid(h) == validatePlannerResponse(
                                [kind |-> "object", hypotheses |-> <<h>>]) = <<>>
            IN  /\ parsed' = [kind |-> "object",
                              hypotheses |-> SelectSeq(parsed.hypotheses, valid)]
                /\ pc' = "filter"
    /\ UNCHANGED <<hypotheses, llmOutput, safe>>
    /\ unchangedByGenerate

\* The allow-list filter applied to what is left after limiting.
FilterSafeAfterLimit ==
    /\ pc = "filter"
    /\ safe' = filterSafeHypotheses(
                   limitHypotheses(parsed.hypotheses, plannerConfig.maxHypotheses),
                   plannerConfig.targetAllowlist)
    /\ pc' = "limit"
    /\ UNCHANGED <<hypotheses, llmOutput, parsed>>
    /\ unchangedByGenerate

\* let hypotheses = filterSafeHypotheses(parsed.hypotheses, targetAllowlist)
FilterSafe ==
    /\ pc = "filter"
    /\ safe' = filterSafeHypotheses(parsed.hypotheses, plannerConfig.targetAllowlist)
    /\ pc' = "limit"
    /\ UNCHANGED <<hypotheses, llmOutput, parsed>>
    /\ unchangedByGenerate

\* hypotheses = limitHypotheses(hypotheses, maxHypotheses); return hypotheses
LimitAndReturn ==
    /\ pc = "limit"
    /\ hypotheses' = limitHypotheses(safe, plannerConfig.maxHypotheses)
    /\ pc' = "planner"
    /\ UNCHANGED <<llmOutput, parsed, safe>>
    /\ unchangedByGenerate

InitGuardrails ==
    /\ provider \in Providers
    /\ plannerConfig \in PlannerConfigs
    /\ llmOutput = NoContent
    /\ parsed = NoParsed
    /\ safe = <<>>
    /\ files = [p \in Paths |-> Missing]
    /\ hypotheses = <<>>
    /\ checkResult = NoCheck
    /\ checked = <<>>
    /\ pc = "generate"
    /\ repo = <<>>
    /\ issues = <<>>
    /\ labels = {}
    /\ config = NoConfig
    /\ run = 1
    /\ allRaw = <<>>
    /\ findings = <<>>
    /\ dedup = NoDedup
    /\ sortedNew = <<>>
    /\ idx = 1
    /\ created = 0
    /\ results = <<>>
    /\ closeIdx = 1
    /\ log = <<>>
    /\ prev = NoPrev
    /\ env = AllScannersOk
    /\ scanIdx = 1

NextGuardrails ==
    \/ GenerateDisabled
    \/ ProviderComplete
    \/ ProviderThrows
    \/ SanitizeOutput
    \/ ParseResponse
    \/ ValidateResponse
    \/ FilterSafe
    \/ LimitAndReturn

SpecGuardrails == InitGuardrails /\ [][NextGuardrails]_vars

----------------------------------------------------------------------------
(* index.ts: main, scanner by scanner and through the planner stage *)

\* What a scanner meets: "disabled" (isAvailable is false), "ok", a failure
\* its scan catches ("execFails" and "badJson" for npm audit, "unreachable"
\* for the HTTP target), or a failure it does not catch (a custom secret
\* pattern that is no regular expression: new RegExp throws).
ScannerEnvs == {
    AllScannersOk,
    [AllScannersOk EXCEPT !["http-scan"] = "disabled"],
    [AllScannersOk EXCEPT !["npm-audit"] = "execFails"],
    [AllScannersOk EXCEPT !["npm-audit"] = "badJson"],
    [AllScannersOk EXCEPT !["http-scan"] = "unreachable"],
    [AllScannersOk EXCEPT !["secret-detection"] = "badCustomPattern"] }

\* scanner.isAvailable(config)
isAvailable(name, outcomes) == outcomes[name] # "disabled"

\* scanner.scan(config) rejects.
ScanThrows(name, outcomes) ==
    name = "secret-detection" /\ outcomes[name] = "badCustomPattern"

\* What scanner.scan(config) resolves to.
ScanReturns(name, outcomes, reported) ==
    LET own(r) == r.tool = name
    IN  IF outcomes[name] = "ok" THEN SelectSeq(reported, own) ELSE <<>>

MainConfigs ==
    [enabled : BOOLEAN, token : Tokens, maxPerRun : {MaxCap},
     autoClose : {TRUE}, demoLabel : {NoLabel}, persona : {"default"}]

\* The provider of the run: one that throws, ones whose content is no
\* object, no JSON, or "{}" (the StubProvider of main), and one with a valid
\* and an invalid hypothesis.
MainProviders ==
    { [throws |-> TRUE, content |-> NoContent] }
    \cup { [throws |-> FALSE, content |-> c] :
             c \in { LLMContent("null", <<>>, <<>>),
                     LLMContent("noHypotheses", <<>>, <<>>),
                     LLMContent("prose", <<>>,
                                <<"I", " ", "cannot", " ", "help", " ", "with", " ", "that">>),
                     LLMContent("object",
                                <<Hypo("HYPO-005"),
                                  [Hypo("HYPO-003") EXCEPT !.risk = "severe"]>>,
                                <<>>) } }

InitMain ==
    /\ repo \in InjSeqs(RerunCatalog, MaxFindings)
    /\ issues \in { <<>>, <<SeedIssue(LodashRaw), SeedIssue(StaleRaw)>> }
    /\ labels = IF issues = <<>> THEN {} ELSE Range(REQUIRED_LABELS)
    /\ env \in ScannerEnvs
    /\ \/ plannerConfig = NoPlannerConfig /\ provider = NoProvider
       \/ /\ plannerConfig = [enabled |-> TRUE,
                              targetAllowlist |-> DEFAULT_TARGET_ALLOWLIST,
                              maxHypotheses |-> MaxHypotheses]
          /\ provider \in MainProviders
    /\ files = [p \in Paths |->
                   IF p = "src/db.ts"
                   THEN [patterns |-> {"string-concatenated-query"},
                         text |-> {"db.query(sql)", "id"}]
                   ELSE Missing]
    /\ config = NoConfig
    /\ pc = "idle"
    /\ run = 0
    /\ scanIdx = 1
    /\ allRaw = <<>>
    /\ findings = <<>>
    /\ dedup = NoDedup
    /\ sortedNew = <<>>
    /\ idx = 1
    /\ created = 0
    /\ results = <<>>
    /\ closeIdx = 1
    /\ log = <<>>
    /\ prev = NoPrev
    /\ hypotheses = <<>>
    /\ checkResult = NoCheck
    /\ checked = <<>>
    /\ llmOutput = NoContent
    /\ parsed = NoParsed
    /\ safe = <<>>

unchangedByScan ==
    UNCHANGED <<repo, issues, labels, findings, dedup, processVars, log, prev,
                files, hypotheses, checkResult, checked, generateVars, env>>

\* main: loadConfig, and the empty allRaw before the loop over the scanners.
BeginMain ==
    /\ pc = "idle"
    /\ run = 0
    /\ \E cfg \in MainConfigs : config' = cfg
    /\ run' = 1
    /\ pc' = "scan"
    /\ UNCHANGED <<allRaw, scanIdx>>
    /\ unchangedByScan

\* One turn of the loop over the scanners: if (scanner.isAvailable(config))
\* allRaw.push(...await scanner.scan(config)), the scan resolving.
RunScanner ==
    /\ pc = "scan"
    /\ scanIdx <= Len(ScannerNames)
    /\ ~(isAvailable(ScannerNames[scanIdx], env) /\ ScanThrows(ScannerNames[scanIdx], env))
    /\ allRaw' = IF isAvailable(ScannerNames[scanIdx], env)
                 THEN allRaw \o ScanReturns(ScannerNames[scanIdx], env, repo)
                 ELSE allRaw
    /\ scanIdx' = scanIdx + 1
    /\ UNCHANGED <<config, run, pc>>
    /\ unchangedByScan

\* await scanner.scan(config) rejects: nothing in main catches it before
\* main().catch, which logs "Fatal error" and exits with status 1.
ScannerThrows ==
    /\ pc = "scan"
    /\ scanIdx <= Len(ScannerNames)
    /\ isAvailable(ScannerNames[scanIdx], env)
    /\ ScanThrows(ScannerNames[scanIdx], env)
    /\ pc' = "fatal"
    /\ UNCHANGED <<config, run, allRaw, scanIdx>>
    /\ unchangedByScan

\* Step 2b: if (config.llmPlanner && isLLMPlannerEnabled(config.llmPlanner))
\* the planner is built and generateHypotheses is called; else step 3 is next.
PlannerGate ==
    /\ pc = "scan"
    /\ scanIdx > Len(ScannerNames)
    /\ pc' = IF isLLMPlannerEnabled(plannerConfig) THEN "generate" ELSE "planner"
    /\ UNCHANGED <<config, run, allRaw, scanIdx>>
    /\ unchangedByScan

\* A planner failure that ends the run.
PlannerCaughtAborts ==
    /\ pc = "caught"
    /\ pc' = "fatal"
    /\ UNCHANGED <<hypotheses, checkResult, checked, allRaw, findings>>
    /\ unchangedByPlanner

\* catch (err) { logger.error("LLM planner stage failed") }: the run goes on
\* with what the scanners found.
PlannerCaught ==
    /\ pc = "caught"
    /\ hypotheses' = <<>>
    /\ pc' = "planner"
    /\ UNCHANGED <<checkResult, checked, allRaw, findings>>
    /\ unchangedByPlanner

\* Step 4: if (!config.issues.enabled) the findings are printed and main
\* returns; else deduplicate is next.
IssuesGate ==
    /\ pc = "normalized"
    /\ pc' = IF config.enabled THEN "dedup" ELSE "exit"
    /\ UNCHANGED <<repo, issues, labels, config, run, allRaw, findings, dedup,
                   processVars, log, prev, plannerVars>>

NextMain ==
    \/ BeginMain
    \/ RunScanner
    \/ ScannerThrows
    \/ PlannerGate
    \/ ProviderComplete
    \/ ProviderThrows
    \/ SanitizeOutput
    \/ ParseResponse
    \/ ValidateResponse
    \/ FilterSafe
    \/ LimitAndReturn
    \/ PlannerCaught
    \/ RunStaticChecks
    \/ PushConfirmed
    \/ NormalizeConfirmed
    \/ IssuesGate
    \/ RunSteps

SpecMain == InitMain /\ [][NextMain]_vars

----------------------------------------------------------------------------
(* Properties of the reconciliation pipeline *)

IsCreate(r) == r.op = "create"
IsCreateOk(r) == r.op = "create" /\ r.ok
IsComment(r) == r.op = "comment"
IsUpdate(r) == r.op = "update"

CreateRequests == SelectSeq(log, IsCreate)

Count(seq, Test(_)) == Cardinality({ i \in 1..Len(seq) : Test(seq[i]) })

Min(a, b) == IF a <= b THEN a ELSE b

\* processIssues has been entered and dedup is the DedupResult it was given.
InProcessIssues == pc \in {"create", "comment", "update", "done"}

\* The issues reconciliation tracks: open issues (not pull requests) that
\* carry the control label and a fingerprint marker.
Tracked(n) ==
    /\ issues[n].state = "open"
    /\ ~issues[n].pull_request
    /\ "redteam-agent" \in issues[n].labels
    /\ FingerprintMatch(issues[n].body) # NoMarker

\* C1: after any sequence of complete runs no two open tracked issues carry
\* the same fingerprint marker.
C1_OneOpenIssuePerFingerprint ==
    pc = "idle" =>
        \A m, n \in 1..Len(issues) :
            (m # n /\ Tracked(m) /\ Tracked(n))
                => FingerprintMatch(issues[m].body) # FingerprintMatch(issues[n].body)

C3_PartitionComplete ==
    pc = "labels" =>
        LET M == fetchExistingIssuesByFingerprint(issues, config)
            D == dedup
            asNew(f) == { i \in 1..Len(D.newFindings) : D.newFindings[i] = f }
            asExisting(f) ==
                { i \in 1..Len(D.existingFindings) : D.existingFindings[i].finding = f }
            carried(k) == \E i \in 1..Len(findings) : findings[i].fingerprint = k
            asResolved(n) ==
                { i \in 1..Len(D.resolvedIssueNumbers) : D.resolvedIssueNumbers[i] = n }
            referenced(n) ==
                \E i \in 1..Len(D.existingFindings) : D.existingFindings[i].issueNumber = n
        IN  /\ Len(D.newFindings) + Len(D.existingFindings) = Len(findings)
            /\ D.totalRaw = Len(findings)
            /\ \A i \in 1..Len(findings) :
                  LET f == findings[i]
                  IN  IF MapHas(M, f.fingerprint)
                      THEN /\ asNew(f) = {}
                           /\ Cardinality(asExisting(f)) = 1
                           /\ \A j \in asExisting(f) :
                                 D.existingFindings[j].issueNumber = MapGet(M, f.fingerprint)
                      ELSE /\ Cardinality(asNew(f)) = 1
                           /\ asExisting(f) = {}
            /\ \A e \in 1..Len(M) :
                  IF carried(M[e].key)
                  THEN asResolved(M[e].value) = {} /\ referenced(M[e].value)
                  ELSE Cardinality(asResolved(M[e].value)) = 1 /\ ~referenced(M[e].value)

C3_Witness ==
    /\ pc = "labels"
    /\ dedup.newFindings # <<>>
    /\ dedup.existingFindings # <<>>
    /\ dedup.resolvedIssueNumbers # <<>>

\* The findings of sortedNew the first loop has not reached (after the loop:
\* the findings the cap deferred).
Unattempted == { sortedNew[j] : j \in idx..Len(sortedNew) }

\* C4, as stated: one processIssues call sends at most maxPerRun create
\* requests.
C4_CreateRequestsWithinCap ==
    InProcessIssues => Len(CreateRequests) <= config.maxPerRun

\* C4, amended: one processIssues call creates at most maxPerRun issues (a
\* failed create request does not count against the cap), and no finding the
\* cap left uncreated is resolved or has an issue closed on its account.
C4_CreatedWithinCap ==
    InProcessIssues =>
        /\ Count(log, IsCreateOk) <= config.maxPerRun
        /\ \A f \in Unattempted :
              /\ \A i \in 1..Len(dedup.resolvedIssueNumbers) :
                    FingerprintMatch(issues[dedup.resolvedIssueNumbers[i]].body)
                        # f.fingerprint
              /\ \A i \in 1..Len(log) :
                    log[i].op \in {"comment", "update"}
                        => FingerprintMatch(issues[log[i].arg].body) # f.fingerprint

C4_Witness ==
    /\ pc = "done"
    /\ Unattempted # {}
    /\ config.maxPerRun >= 1
    /\ Count(log, IsCreateOk) = config.maxPerRun
    /\ \E i \in 1..Len(results) : results[i].action = "closed"

HasFinding(r, f) == "finding" \in DOMAIN r /\ r.finding = f

IsCreated(r) == r.action = "created"

\* C5: when every create request succeeds, processIssues returns exactly
\* min(k, maxPerRun) created results, for the first findings of the sorted
\* list; the other new findings have no result of any action and no request.
C5_ExactlyMinCreated ==
    (pc = "done" /\ \A i \in 1..Len(log) : log[i].op = "create" => log[i].ok) =>
        LET k == Len(dedup.newFindings)
            m == Min(k, config.maxPerRun)
        IN  /\ Count(results, IsCreated) = m
            /\ \A j \in 1..m : IsCreated(results[j]) /\ results[j].finding = sortedNew[j]
            /\ \A j \in (m + 1)..k :
                  /\ \A i \in 1..Len(results) : ~HasFinding(results[i], sortedNew[j])
                  /\ \A i \in 1..Len(log) :
                        log[i].op = "create" => log[i].arg # sortedNew[j].rawId

C5_Witness ==
    /\ pc = "done"
    /\ \A i \in 1..Len(log) : log[i].op = "create" => log[i].ok
    /\ config.maxPerRun >= 1
    /\ Len(dedup.newFindings) > config.maxPerRun

\* The new finding a create request was sent for, and its place in the input.
InputPlace(rawId) ==
    CHOOSE i \in 1..Len(dedup.newFindings) : dedup.newFindings[i].rawId = rawId

Rank(rawId) == SEVERITY_ORDER[dedup.newFindings[InputPlace(rawId)].severity]

\* C6: create requests are sent in the order critical, high, medium, low,
\* findings of equal severity in input order; and a finding no request was
\* sent for is no more severe than any finding a request was sent for.
C6_SeverityOrder ==
    InProcessIssues =>
        LET sent == CreateRequests
        IN  /\ \A a, b \in 1..Len(sent) :
                  a < b =>
                     \/ Rank(sent[a].arg) < Rank(sent[b].arg)
                     \/ /\ Rank(sent[a].arg) = Rank(sent[b].arg)
                        /\ InputPlace(sent[a].arg) < InputPlace(sent[b].arg)
            /\ \A a \in 1..Len(sent) : \A f \in Unattempted :
                  Rank(sent[a].arg) <= SEVERITY_ORDER[f.severity]

C6_Witness ==
    /\ pc = "done"
    /\ Len(CreateRequests) = MaxFindings
    /\ SEVERITY_ORDER[dedup.newFindings[1].severity]
          > SEVERITY_ORDER[dedup.newFindings[Len(dedup.newFindings)].severity]
    /\ CreateRequests[1].arg = dedup.newFindings[Len(dedup.newFindings)].rawId

\* C9: with issue creation enabled and an empty token the run stops at its
\* first use of the tracker, before any request is sent: labels and issues
\* are as the run found them.
C9_FailClosedWithoutToken ==
    (pc # "idle" /\ config.enabled /\ config.token = "") =>
        /\ pc \in {"dedup", "fatal"}
        /\ log = <<>>
        /\ issues \in InitialTrackers
        /\ labels = (IF issues = <<>> THEN {} ELSE Range(REQUIRED_LABELS))

C9_Witness ==
    /\ pc = "fatal"
    /\ config.enabled
    /\ config.token = ""
    /\ findings # <<>>

AtMostOnce(Test(_)) ==
    \A i, j \in 1..Len(log) :
        (Test(log[i]) /\ Test(log[j]) /\ log[i].arg = log[j].arg) => i = j

\* C10: within one processIssues call no create, comment or update request
\* is sent twice for the same finding or issue, and no failure ends the
\* call: at its end every new finding was attempted unless the cap was
\* reached, every existing finding has its skipped result, and with
\* autoClose every resolved issue had its close attempted.
C10_FailureIsolated ==
    /\ AtMostOnce(IsCreate) /\ AtMostOnce(IsComment) /\ AtMostOnce(IsUpdate)
    /\ pc = "fatal" =>
          \A i \in 1..Len(log) : log[i].op \notin {"create", "comment", "update"}
    /\ pc = "done" =>
          /\ Unattempted # {} => created = config.maxPerRun
          /\ \A i \in 1..Len(dedup.existingFindings) :
                \E j \in 1..Len(results) :
                    results[j] = SkippedResult(dedup.existingFindings[i])
          /\ config.autoClose =>
                \A i \in 1..Len(dedup.resolvedIssueNumbers) :
                    \E j \in 1..Len(log) :
                        IsComment(log[j]) /\ log[j].arg = dedup.resolvedIssueNumbers[i]

C10_Witness ==
    /\ pc = "done"
    /\ \E i, j \in 1..Len(log) :
          i < j /\ IsCreate(log[i]) /\ ~log[i].ok /\ IsCreateOk(log[j])
    /\ \E i, j \in 1..Len(log) :
          /\ i < j
          /\ log[i].op \in {"comment", "update"} /\ ~log[i].ok
          /\ IsUpdate(log[j]) /\ log[j].ok

IsClosed(r) == r.action = "closed"

IsSkipped(r) == r.action = "skipped"

Resolved == Range(dedup.resolvedIssueNumbers)

\* The requests of the log with this operation, sent for this argument.
RequestsFor(op, arg) == { i \in 1..Len(log) : log[i].op = op /\ log[i].arg = arg }

\* C11: comment and update requests are sent only when autoClose is true, and
\* only for issue numbers of resolvedIssueNumbers; with autoClose true the
\* call ends with exactly one close attempt (one comment request, at most one
\* state update) for each of these numbers; with autoClose false none is
\* sent and no issue of the tracker is closed.
C11_CloseOnlyWithAutoClose ==
    InProcessIssues =>
        /\ \A i \in 1..Len(log) :
              log[i].op \in {"comment", "update"}
                  => (config.autoClose /\ log[i].arg \in Resolved)
        /\ ~config.autoClose =>
              /\ \A i \in 1..Len(results) : ~IsClosed(results[i])
              /\ \A n \in Resolved : issues[n].state = "open"
        /\ (pc = "done" /\ config.autoClose) =>
              \A n \in Resolved :
                  /\ Cardinality(RequestsFor("comment", n)) = 1
                  /\ Cardinality(RequestsFor("update", n)) <= 1

C11_Witness ==
    /\ pc = "done"
    /\ config.autoClose
    /\ Cardinality(Resolved) >= 2
    /\ \A n \in Resolved : issues[n].state = "closed"

C13_ResultsReflectCompleted ==
    InProcessIssues =>
        /\ \A i \in 1..Len(results) :
              /\ IsCreated(results[i]) =>
                    /\ \E j \in RequestsFor("create", results[i].finding.rawId) : log[j].ok
                    /\ results[i].issueNumber \in 1..Len(issues)
                    /\ FingerprintMatch(issues[results[i].issueNumber].body)
                          = results[i].finding.fingerprint
              /\ IsClosed(results[i]) =>
                    /\ \E j \in RequestsFor("comment", results[i].issueNumber) : log[j].ok
                    /\ \E j \in RequestsFor("update", results[i].issueNumber) : log[j].ok
                    /\ issues[results[i].issueNumber].state = "closed"
        /\ \A j \in 1..Len(log) :
              /\ (IsCreate(log[j]) /\ ~log[j].ok) =>
                    \A i \in 1..Len(results) :
                        ~(IsCreated(results[i]) /\ results[i].finding.rawId = log[j].arg)
              /\ (log[j].op \in {"comment", "update"} /\ ~log[j].ok) =>
                    \A i \in 1..Len(results) :
                        ~(IsClosed(results[i]) /\ results[i].issueNumber = log[j].arg)
        /\ \A f \in Unattempted : \A i \in 1..Len(results) : ~HasFinding(results[i], f)
        /\ Count(results, IsCreated) = Count(log, IsCreateOk)
        /\ Count(results, IsClosed) = Cardinality({ j \in 1..Len(log) : IsUpdate(log[j]) /\ log[j].ok })

C13_Witness ==
    /\ pc = "done"
    /\ \E j \in 1..Len(log) : IsCreate(log[j]) /\ ~log[j].ok
    /\ \E j \in 1..Len(log) : IsUpdate(log[j]) /\ ~log[j].ok
    /\ \E i \in 1..Len(results) : IsClosed(results[i])

----------------------------------------------------------------------------
(* Properties of the evidence gate *)

\* C7: hypothesisToFinding gives null when the check found no evidence, and
\* otherwise a finding with severity = risk and tool = "llm-planner"; so
\* allRaw, and the findings normalize makes of it, hold exactly the findings
\* of the hypotheses whose check found evidence.
C7_EvidenceGate ==
    /\ \A i \in 1..Len(checked) :
          LET c == checked[i]
          IN  IF c.checkResult.evidenceFound
              THEN /\ c.finding # Null
                   /\ c.finding.severity = c.hypothesis.risk
                   /\ c.finding.tool = "llm-planner"
                   /\ \E j \in 1..Len(allRaw) : allRaw[j] = c.finding
              ELSE /\ c.finding = Null
                   /\ \A j \in 1..Len(allRaw) :
                         allRaw[j].rawId # <<"llm-planner-", c.hypothesis.id>>
    /\ Len(allRaw) =
          Cardinality({ i \in 1..Len(checked) : checked[i].checkResult.evidenceFound })
    /\ pc = "normalized" =>
          /\ Len(findings) = Len(allRaw)
          /\ \A j \in 1..Len(findings) :
                \E i \in 1..Len(checked) :
                    /\ checked[i].checkResult.evidenceFound
                    /\ findings[j].rawId = <<"llm-planner-", checked[i].hypothesis.id>>

C7_Witness ==
    /\ pc = "normalized"
    /\ Len(findings) >= 1
    /\ \E i \in 1..Len(checked) : ~checked[i].checkResult.evidenceFound
    /\ \E i \in 1..Len(checked) : checked[i].checkResult.evidenceFound

\* The patterns registered for a category in the pattern table.
Registered(category) ==
    IF category \in OwnCategories
    THEN Range(STATIC_CHECK_PATTERNS(category)) ELSE {}

\* A pattern registered for the hypothesis's category matches the existing
\* file that location i names.
PatternEvidenceAt(hypothesis, i) ==
    LET filePath == SplitColonFirst(hypothesis.likely_locations[i])
    IN  /\ filePath \in Paths
        /\ files[filePath] # Missing
        /\ \E name \in Registered(hypothesis.category) :
              name \in files[filePath].patterns

\* A fragment quoted in the rationale occurs in the existing file that
\* location i names.
FragmentAt(hypothesis, i) ==
    LET filePath == SplitColonFirst(hypothesis.likely_locations[i])
    IN  /\ filePath \in Paths
        /\ files[filePath] # Missing
        /\ \E k \in 1..Len(hypothesis.rationale) :
              /\ hypothesis.rationale[k] \in CodeSpans
              /\ ToLowerCase(hypothesis.rationale[k]) \in files[filePath].text

\* C8: evidenceFound iff a pattern registered for the category matches an
\* existing file named by likely_locations; every details line is such a
\* match (a rationale fragment adds no details line).
C8_EvidenceIffPatternMatch ==
    pc = "convert" =>
        LET h == Head(hypotheses)
        IN  /\ checkResult.evidenceFound
                <=> \E i \in 1..Len(h.likely_locations) : PatternEvidenceAt(h, i)
            /\ \A d \in 1..Len(checkResult.details) :
                  LET line == checkResult.details[d]
                  IN  /\ line.pattern \in Registered(h.category)
                      /\ line.file \in Paths
                      /\ files[line.file] # Missing
                      /\ line.pattern \in files[line.file].patterns

\* A fragment occurs in a cited file, no pattern matches: a location and no
\* evidence.
C8_Witness ==
    /\ pc = "convert"
    /\ ~checkResult.evidenceFound
    /\ checkResult.locations # <<>>
    /\ \E i \in 1..Len(Head(hypotheses).likely_locations) :
          FragmentAt(Head(hypotheses), i)

----------------------------------------------------------------------------
(* Properties of generateHypotheses and its guardrails *)

\* The item has every field the schema asks for, of the type it asks for.
ConformsToSchema(h) == validateHypothesis(h) = <<>>

\* The items of the decoded answer that conform to the schema, in order.
ValidItems == SelectSeq(llmOutput.hypotheses, ConformsToSchema)

\* C14: once a decoded answer with a hypotheses array is validated, the
\* items handed to the guardrail filters are exactly the valid items of the
\* answer, in their original order; the invalid ones are dropped and take
\* no valid item with them.
C14_PartialValidation ==
    (pc \in {"filter", "limit"} /\ llmOutput.kind = "object") =>
        /\ parsed.hypotheses = ValidItems
        /\ pc = "limit" =>
              safe = filterSafeHypotheses(ValidItems, plannerConfig.targetAllowlist)

\* An answer with a valid and an invalid item has been validated.
C14_Witness ==
    /\ pc = "filter"
    /\ llmOutput.kind = "object"
    /\ \E i \in 1..Len(llmOutput.hypotheses) : ConformsToSchema(llmOutput.hypotheses[i])
    /\ \E i \in 1..Len(llmOutput.hypotheses) : ~ConformsToSchema(llmOutput.hypotheses[i])
    /\ parsed.hypotheses # <<>>

\* The place of the last "@" of an authority, 0 when it has none.
RECURSIVE LastAt(_, _)
LastAt(authority, i) ==
    IF i = 0 \/ authority[i] = "@" THEN i ELSE LastAt(authority, i - 1)

\* The first place at or after i of a text that holds one of the tokens, or
\* the place after the end.
RECURSIVE FirstOf(_, _, _)
FirstOf(tokens, text, i) ==
    IF i <= Len(text) /\ text[i] \notin tokens THEN FirstOf(tokens, text, i + 1) ELSE i

\* The host of a URL authority [userinfo@]host[:port], in lower case; an
\* IPv6 address is written in brackets.
HostOf(authority) ==
    LET hostport == SubSeq(authority, LastAt(authority, Len(authority)) + 1, Len(authority))
        host == IF hostport # <<>> /\ hostport[1] = "["
                THEN SubSeq(hostport, 2, FirstOf({"]"}, hostport, 1) - 1)
                ELSE SubSeq(hostport, 1, FirstOf({":"}, hostport, 1) - 1)
    IN  [i \in 1..Len(host) |-> ToLowerCase(host[i])]

\* The hosts of the http(s) URLs a test plan refers to.
ReferencedHosts(plan) ==
    { HostOf(SubSeq(plan, i + 1, FirstOf({"/", "?", "#", " "}, plan, i + 1) - 1)) :
        i \in { j \in 1..Len(plan) : ToLowerCase(plan[j]) \in {"http://", "https://"}
                                     /\ FirstOf({"/", "?", "#", " "}, plan, j + 1) > j + 1 } }

\* The hosts an allow-list names.
AllowedHosts(allowlist) == { LowerTrimEntry(allowlist[k]) : k \in 1..Len(allowlist) }

\* C15: filterSafeHypotheses keeps a hypothesis iff every http(s) host its
\* safe_test_plan refers to is in the allow-list; one host outside the
\* allow-list removes the hypothesis, and a plan with no URL or with
\* allow-listed hosts only is kept.
C15_KeptIffAllHostsAllowed ==
    pc = "limit" =>
        LET allHostsAllowed(h) ==
                ReferencedHosts(h.safe_test_plan)
                    \subseteq AllowedHosts(plannerConfig.targetAllowlist)
        IN  safe = SelectSeq(parsed.hypotheses, allHostsAllowed)

\* The text of the hypothesis holds what the sanitizer looks for: rm, or a
\* semicolon.
MentionsUnsafeCommand(h) ==
    \E t \in Range(h.rationale) \cup Range(h.safe_test_plan) :
        ToLowerCase(t) \in {"rm", ";"}

\* s is t with some elements left out: f maps the places of s to places of
\* t, increasing.
IsSubSeq(s, t) ==
    \E f \in [1..Len(s) -> 1..Len(t)] :
        /\ \A i \in 1..Len(s) : s[i] = t[f[i]]
        /\ \A i, j \in 1..Len(s) : i < j => f[i] < f[j]

\* C16 as stated: every hypothesis generateHypotheses returns is identical,
\* field for field, to a hypothesis of the provider's output.
C16_ReturnedAsProvided ==
    pc = "planner" =>
        \A i \in 1..Len(hypotheses) : hypotheses[i] \in Range(provider.content.hypotheses)

\* C16, amended: the steps after sanitization never change a hypothesis.
\* The returned hypotheses are hypotheses decoded from the sanitized output,
\* in their order there, each identical field for field; and a returned
\* hypothesis is identical to the provider's own when the provider's text
\* for it holds nothing the sanitizer redacts.
C16_ReturnedAsSanitized ==
    pc = "planner" =>
        /\ IsSubSeq(hypotheses, llmOutput.hypotheses)
        /\ \A j \in 1..Len(provider.content.hypotheses) :
              LET h == provider.content.hypotheses[j]
              IN  (llmOutput.kind = "object" /\ ConformsToSchema(h)
                      /\ ~MentionsUnsafeCommand(h))
                  => llmOutput.hypotheses[j] = h

\* A hypothesis is returned with a redacted text while another one of the
\* same answer was left out.
C16_Witness ==
    /\ pc = "planner"
    /\ \E i \in 1..Len(hypotheses) : hypotheses[i] \notin Range(provider.content.hypotheses)
    /\ Len(hypotheses) < Len(provider.content.hypotheses)

\* The valid items of the answer that the allow-list filter lets through.
Survivors == filterSafeHypotheses(ValidItems, plannerConfig.targetAllowlist)

\* C17: what generateHypotheses returns for a decoded answer is the first
\* min(n, maxHypotheses) of the n hypotheses that passed validation and the
\* allow-list filter, in their original order; a hypothesis the allow-list
\* removed takes none of the maxHypotheses places.
C17_LimitAfterFilter ==
    (pc = "planner" /\ llmOutput.kind = "object" /\ llmOutput.wellFormed) =>
        /\ Len(hypotheses) = Min(Len(Survivors), plannerConfig.maxHypotheses)
        /\ \A i \in 1..Len(hypotheses) : hypotheses[i] = Survivors[i]

\* The allow-list removed the first valid item, and the list returned is as
\* long as maxHypotheses allows.
C17_Witness ==
    /\ pc = "planner"
    /\ llmOutput.kind = "object"
    /\ llmOutput.wellFormed
    /\ ValidItems # <<>>
    /\ Head(ValidItems) \notin Range(Survivors)
    /\ plannerConfig.maxHypotheses >= 1
    /\ Len(hypotheses) = plannerConfig.maxHypotheses

----------------------------------------------------------------------------
(* Properties of main: failures of a stage *)

\* What a scanner contributes: its findings when its scan runs to the end.
ReportedBy(name) ==
    LET own(r) == r.tool = name
    IN  IF env[name] = "ok" THEN SelectSeq(repo, own) ELSE <<>>

\* The findings of the deterministic scanners, in the order of the scanners.
ScannerFindings ==
    ReportedBy("npm-audit") \o ReportedBy("secret-detection") \o ReportedBy("http-scan")

\* The planner stage is enabled and hypothesis generation fails: the
\* provider throws, or its output is no JSON or not of the response schema.
GenerationFailed ==
    /\ isLLMPlannerEnabled(plannerConfig)
    /\ \/ provider.throws
       \/ provider.content.kind \in {"prose", "null", "notArray", "noHypotheses"}

GeneratePcs == {"generate", "sanitize", "parse", "validate", "filter", "limit", "caught"}

BeforeNormalizePcs == {"idle", "scan", "planner", "convert", "fatal"} \cup GeneratePcs

\* C18: when hypothesis generation fails, no step of the planner stage ends
\* the run; the stage is left with no hypothesis to check and no finding
\* added, and what is normalized and handed to reconciliation is what the
\* scanners found.
C18_GenerationFailureFallsBack ==
    [][GenerationFailed =>
          /\ pc \in GeneratePcs => pc' \in GeneratePcs \cup {"planner"}
          /\ (pc \in GeneratePcs /\ pc' = "planner") =>
                (hypotheses' = <<>> /\ allRaw' = ScannerFindings)
          /\ pc' \notin BeforeNormalizePcs => findings' = normalize(ScannerFindings)]_vars

\* A run whose hypothesis generation failed has filed an issue for a
\* scanner finding.
C18_Witness ==
    /\ pc = "done"
    /\ GenerationFailed
    /\ created >= 1
    /\ \E i \in 1..Len(results) : results[i].action = "created"

\* C19 as stated: a turn of the loop over the scanners always goes on to the
\* next scanner, and a scanner whose scan fails adds no finding.
C19_ScannerFailureIsolated ==
    [][(pc = "scan" /\ scanIdx <= Len(ScannerNames)) =>
          /\ pc' = "scan"
          /\ scanIdx' = scanIdx + 1
          /\ env[ScannerNames[scanIdx]] # "ok" => allRaw' = allRaw]_vars

----------------------------------------------------------------------------
(* Properties of normalize *)

\* The number of characters of a string given by its pieces.
RECURSIVE Characters(_)
Characters(pieces) ==
    IF pieces = <<>> THEN 0 ELSE Head(pieces).n + Characters(Tail(pieces))

\* The string p is the beginning of the string q.
StartsString(p, q) ==
    /\ Len(p) <= Len(q)
    /\ \A i \in 1..Len(p) :
          /\ p[i].s = q[i].s
          /\ IF i < Len(p) THEN p[i].n = q[i].n ELSE p[i].n <= q[i].n

\* C20: what main normalizes has as many findings as raw findings, the i-th
\* made of the i-th: every raw field as it was, the fingerprint that of
\* tool, category, path and title, the id the first 12 characters of the
\* fingerprint, and the evidence the first 1024 characters of the raw
\* evidence.
C20_NormalizeTotalOrdered ==
    pc \notin BeforeNormalizePcs =>
        /\ Len(findings) = Len(allRaw)
        /\ \A i \in 1..Len(allRaw) :
              LET r == allRaw[i]
                  f == findings[i]
              IN  /\ f.rawId = r.rawId
                  /\ f.title = r.title
                  /\ f.severity = r.severity
                  /\ f.tool = r.tool
                  /\ f.category = r.category
                  /\ f.path = r.path
                  /\ f.startLine = r.startLine
                  /\ f.fingerprint = generateFingerprint(r.tool, r.category, r.path, r.title)
                  /\ f.id = <<"prefix12", f.fingerprint>>
                  /\ StartsString(f.evidence, r.evidence)
                  /\ Characters(f.evidence) = Min(Characters(r.evidence), 1024)

\* Scanner findings and a planner finding whose evidence is longer than
\* 1024 characters have been normalized.
C20_Witness ==
    /\ pc \notin BeforeNormalizePcs
    /\ Len(findings) >= 2
    /\ \E i \in 1..Len(allRaw) : Characters(allRaw[i].evidence) > 1024
    /\ \E i \in 1..Len(allRaw) : Characters(allRaw[i].evidence) < 1024

----------------------------------------------------------------------------
(* Properties of the fingerprint *)

\* Spellings of one string: they differ in case and in the white space
\* around them only.
Spellings ==
    { {"Prototype Pollution in lodash", "  prototype pollution in LODASH "},
      {"package.json (lodash)", "Package.json (lodash) "},
      {"npm-audit", "NPM-Audit"},
      {"dependency", " Dependency"} }

SameUpToCaseAndSpace(a, b) == a = b \/ \E c \in Spellings : {a, b} \subseteq c

\* C21: two raw findings whose tool, category, path and title agree up to
\* case and surrounding white space get the same fingerprint, whatever
\* their line, severity, raw id and evidence; and computing the fingerprint
\* of a finding again gives the value normalize stored.
C21_FingerprintOfCanonicalTuple ==
    pc = "normalized" =>
        \A i, j \in 1..Len(allRaw) :
            /\ (/\ SameUpToCaseAndSpace(allRaw[i].tool, allRaw[j].tool)
                /\ SameUpToCaseAndSpace(allRaw[i].category, allRaw[j].category)
                /\ SameUpToCaseAndSpace(allRaw[i].path, allRaw[j].path)
                /\ SameUpToCaseAndSpace(allRaw[i].title, allRaw[j].title))
                  => findings[i].fingerprint = findings[j].fingerprint
            /\ findings[i].fingerprint =
                  generateFingerprint(allRaw[i].tool, allRaw[i].category,
                                      allRaw[i].path, allRaw[i].title)

\* Two findings that differ in spelling, line and severity have the same
\* fingerprint.
C21_Witness ==
    /\ pc = "normalized"
    /\ \E i, j \in 1..Len(allRaw) :
          /\ allRaw[i].title # allRaw[j].title
          /\ allRaw[i].startLine # allRaw[j].startLine
          /\ allRaw[i].tool # allRaw[j].tool
          /\ findings[i].fingerprint = findings[j].fingerprint

----------------------------------------------------------------------------
(* Properties of the fingerprint marker *)

\* C22: the body of every issue created for a finding with a SHA-256
\* fingerprint starts with the marker of that fingerprint, and
\* FINGERPRINT_REGEX recovers exactly that fingerprint from the body, whatever
\* the title, the evidence and the remediation contain and whichever persona
\* wrote the body; the parts that do not belong to the persona are the parts
\* the default persona writes.
C22_MarkerRoundTrip ==
    \A i \in 1..Len(results) :
        (results[i].action = "created" /\ IsHex64(results[i].finding.fingerprint)) =>
            LET body == issues[results[i].issueNumber].body
                finding == results[i].finding
                plain == buildIssueBody(finding, "default")
            IN  /\ body[1] = Part("marker", finding.fingerprint)
                /\ FingerprintMatch(body) = finding.fingerprint
                /\ Len(body) = Len(plain)
                /\ \A k \in 1..Len(body) :
                      body[k].kind # "persona" => body[k] = plain[k]

\* An issue written by the chuck_norris persona for a finding whose evidence
\* and title each quote the marker of another issue.
C22_Witness ==
    \E i \in 1..Len(results) :
        /\ results[i].action = "created"
        /\ config.persona = "chuck_norris"
        /\ LET body == issues[results[i].issueNumber].body
           IN  /\ \E k \in 2..Len(body) :
                     /\ body[k].kind = "evidence"
                     /\ MatchInPart(body[k]) \notin {NoMarker, results[i].finding.fingerprint}
               /\ MarkerIn(results[i].finding.title).fp # NoMarker
               /\ body # buildIssueBody(results[i].finding, "default")

----------------------------------------------------------------------------
(* Properties of the location of a confirmed hypothesis *)

\* The location is a path followed by a qualifier.
Qualified(loc) == SplitColonFirst(loc) # loc

\* No location cited before location i names another file in which a
\* pattern or a fragment is found.
FirstRegistered(h, i) ==
    \A j \in 1..(i - 1) :
        \/ SplitColonFirst(h.likely_locations[j]) = SplitColonFirst(h.likely_locations[i])
        \/ ~(PatternEvidenceAt(h, j) \/ FragmentAt(h, j))

\* C23 as stated: a hypothesis that cites 'path:qualifier' and whose
\* rationale quotes a fragment present in that file has evidenceFound = true
\* and a finding located at the path without the qualifier.
C23_FragmentGivesEvidence ==
    \A n \in 1..Len(checked) :
        LET c == checked[n]
            h == c.hypothesis
        IN  \A i \in 1..Len(h.likely_locations) :
                (Qualified(h.likely_locations[i]) /\ FragmentAt(h, i)) =>
                    /\ c.checkResult.evidenceFound
                    /\ c.finding # Null
                    /\ c.finding.path = SplitColonFirst(h.likely_locations[i])

\* C23, amended: a hypothesis that cites 'path:qualifier', whose rationale
\* quotes a fragment present in that file and for whose category a
\* registered pattern matches in that file has evidenceFound = true, and its
\* finding is located at the path without the qualifier when no earlier
\* location registers another file; with the fragment present and no
\* pattern matching in any cited file, evidenceFound = false and there is no
\* finding.
C23_PatternGivesEvidence ==
    \A n \in 1..Len(checked) :
        LET c == checked[n]
            h == c.hypothesis
        IN  \A i \in 1..Len(h.likely_locations) :
                (Qualified(h.likely_locations[i]) /\ FragmentAt(h, i)) =>
                    /\ PatternEvidenceAt(h, i) =>
                          /\ c.checkResult.evidenceFound
                          /\ c.finding # Null
                          /\ FirstRegistered(h, i) =>
                                c.finding.path = SplitColonFirst(h.likely_locations[i])
                    /\ (\A j \in 1..Len(h.likely_locations) : ~PatternEvidenceAt(h, j)) =>
                          /\ ~c.checkResult.evidenceFound
                          /\ c.finding = Null

\* A confirmed hypothesis that cites src/db.ts:queryUser, with the fragment
\* and a pattern match in src/db.ts.
C23_Witness ==
    \E n \in 1..Len(checked) :
        LET c == checked[n]
            h == c.hypothesis
        IN  \E i \in 1..Len(h.likely_locations) :
                /\ h.likely_locations[i] = "src/db.ts:queryUser"
                /\ FragmentAt(h, i)
                /\ PatternEvidenceAt(h, i)
                /\ c.checkResult.evidenceFound
                /\ c.finding # Null
                /\ c.finding.path = "src/db.ts"

----------------------------------------------------------------------------
(* Properties of reconciliation on a tracker with duplicates *)

\* The numbers of the open issues the listing returns for the configuration
\* and whose body carries a marker.
Listed(tracker, cfg) ==
    { n \in 1..Len(tracker) :
        /\ tracker[n].state = "open"
        /\ LabelFilter(cfg) \subseteq tracker[n].labels
        /\ ~tracker[n].pull_request
        /\ FingerprintMatch(tracker[n].body) # NoMarker }

\* The listed issues whose entry in the fingerprint map another listed issue
\* has taken.
Overwritten(tracker, cfg) ==
    LET existingIssues == fetchExistingIssuesByFingerprint(tracker, cfg)
    IN  { n \in Listed(tracker, cfg) :
            MapGet(existingIssues, FingerprintMatch(tracker[n].body)) # n }

\* The tracker without the anomaly: the overwritten issues are closed.
Repaired(tracker, cfg) ==
    [n \in 1..Len(tracker) |->
        IF n \in Overwritten(tracker, cfg)
        THEN [tracker[n] EXCEPT !.state = "closed"] ELSE tracker[n]]

\* C24: when the listing holds two open labelled issues with the same
\* fingerprint, reconciliation leaves both as they are and its log entries
\* show the anomaly: they are not the entries it writes for the tracker
\* without the overwritten issues.
C24_DuplicateSurfaced ==
    (pc = "labels" /\ Overwritten(issues, config) # {}) =>
        /\ \A n \in Overwritten(issues, config) : issues[n].state = "open"
        /\ ReconciliationLog(issues, config, findings)
              # ReconciliationLog(Repaired(issues, config), config, findings)

----------------------------------------------------------------------------
(* Properties of the demo label *)

\* The issues the run's reconciliation matched to a finding or listed as
\* resolved.
Reconciled ==
    { dedup.existingFindings[i].issueNumber : i \in 1..Len(dedup.existingFindings) }
        \cup Range(dedup.resolvedIssueNumbers)

\* A run with the demo label reconciles no issue filed without it.
DemoRunLeavesOthers ==
    (InProcessIssues /\ config.demoLabel # NoLabel) =>
        \A n \in Reconciled : config.demoLabel \in issues[n].labels

\* A run without the demo label reconciles no issue filed by a demo run.
PlainRunLeavesDemo ==
    (InProcessIssues /\ config.demoLabel = NoLabel) =>
        \A n \in Reconciled : DEMO_ISSUE_LABEL \notin issues[n].labels

\* C25: the issues a run matches to its findings or lists as resolved (the
\* only ones it comments on, updates or closes) are issues of its own kind:
\* with demoLabel set they all carry the demo label, without it none does,
\* whatever their fingerprints.
C25_DemoSeparated == DemoRunLeavesOthers /\ PlainRunLeavesDemo

----------------------------------------------------------------------------
(* Properties of two runs on one tracker *)

\* C26: once two runs whose steps interleave on the same tracker have both
\* returned, no two open tracked issues carry the same fingerprint.
C26_InterleavedRunsKeepOneIssue ==
    (\A p \in PairRuns : pc[p] = "done") =>
        \A m, n \in 1..Len(issues) :
            (m < n /\ Tracked(m) /\ Tracked(n))
                => FingerprintMatch(issues[m].body) # FingerprintMatch(issues[n].body)

\* The same when the second run lists the issues after the first has returned.
SequentialRunsKeepOneIssue ==
    (\A p \in PairRuns : pc[p] = "done") =>
        \/ \E i \in 1..Len(results[2]) :
              /\ results[2][i].action = "created"
              /\ \E j \in 1..Len(results[1]) :
                    /\ results[1][j].action = "created"
                    /\ results[1][j].finding.fingerprint = results[2][i].finding.fingerprint
        \/ \A m, n \in 1..Len(issues) :
              (m < n /\ Tracked(m) /\ Tracked(n))
                  => FingerprintMatch(issues[m].body) # FingerprintMatch(issues[n].body)

----------------------------------------------------------------------------
(* Properties of auto-close under failing producers *)

\* The tool whose finding the fingerprint identifies (the first field of
\* the hash).
ProducerOf(fingerprint) == fingerprint[2]

\* The producer ran to the end in this run: the scanner was available and
\* its scan met no failure; the planner stage was enabled and generation did
\* not fail.
ProducerSucceeded(tool) ==
    IF tool = "llm-planner"
    THEN isLLMPlannerEnabled(plannerConfig) /\ ~GenerationFailed
    ELSE env[tool] = "ok"

\* The repository still holds a finding with this fingerprint for its
\* scanner to report.
StillPresent(fingerprint) ==
    \E i \in 1..Len(repo) :
        generateFingerprint(repo[i].tool, repo[i].category, repo[i].path,
                            repo[i].title) = fingerprint

\* C27: every issue a run auto-closes belongs to a producer that ran to the
\* end in this run and that no longer has the finding to report; a scanner
\* that failed or was disabled causes no close of its issues.
C27_CloseOnlyWhenProducerSucceeded ==
    \A i \in 1..Len(results) :
        IsClosed(results[i]) =>
            LET fingerprint == FingerprintMatch(issues[results[i].issueNumber].body)
            IN  /\ ProducerSucceeded(ProducerOf(fingerprint))
                /\ ~StillPresent(fingerprint)

----------------------------------------------------------------------------
(* Properties of closeResolvedIssue across runs *)

\* C28: after any sequence of runs, whatever requests failed, no open issue
\* carries the auto-close comment and no issue carries it more than once.
C28_CloseAllOrNothing ==
    pc = "idle" =>
        \A n \in 1..Len(issues) :
            /\ issues[n].state = "open" => issues[n].comments = 0
            /\ issues[n].comments <= 1

\* The part of C28 on the number of comments alone.
AtMostOneCloseComment ==
    pc = "idle" => \A n \in 1..Len(issues) : issues[n].comments <= 1

----------------------------------------------------------------------------
(* Properties of the location of a finding *)

\* C29: the finding of every confirmed hypothesis is located at a file
\* named by likely_locations in which a pattern registered for the
\* hypothesis's category matches, never at a file that is among the
\* locations only because a fragment of the rationale occurs in it.
C29_LocatedAtPatternMatch ==
    \A n \in 1..Len(checked) :
        LET c == checked[n]
            h == c.hypothesis
        IN  c.finding # Null =>
                \E i \in 1..Len(h.likely_locations) :
                    /\ c.finding.path = SplitColonFirst(h.likely_locations[i])
                    /\ PatternEvidenceAt(h, i)

----------------------------------------------------------------------------
(* Properties of filing over repeated runs *)

\* Every fingerprint of the findings of the repository has an open tracked
\* issue.
AllFiled ==
    \A i \in 1..Len(repo) :
        \E n \in 1..Len(issues) :
            /\ Tracked(n)
            /\ FingerprintMatch(issues[n].body) = normalizeOne(repo[i]).fingerprint

\* C30: under runs that follow one another on the same findings, with a cap
\* of at least one and create requests that succeed in the end, there comes a
\* point from which every fingerprint has an open tracked issue and no run
\* sends a create request.
C30_EventualFiling == <>[](AllFiled /\ CreateRequests = <<>>)

\* A second run files the finding the cap made the first run defer.
C30_Witness ==
    /\ pc = "done"
    /\ run = 2
    /\ prev.completed /\ prev.created >= 1 /\ prev.created < prev.newCount
    /\ created >= 1
    /\ Len(repo) = 2
    /\ AllFiled

====
